---- MODULE Spec2Model ----
(***************************************************************************)
(* Model of the vocational-guidance backend (back-kairos): the chat        *)
(* session / evaluation / answer / result tables, the request handlers     *)
(* that write them, and the scoring pipeline of model_service.py           *)
(* (aggregation, NLP scores, final profile, classifier, career list).      *)
(*                                                                         *)
(* Numbers: answer values are integers in hundredths (4.0 is 400), cosine  *)
(* similarities are in tenths (0.3 is 3), probabilities in hundredths and  *)
(* stored profile values in ten-thousandths (round(v, 4) of the code).     *)
(* Texts are sequences of one-character strings.                           *)
(***************************************************************************)
EXTENDS Integers, Sequences, FiniteSets, TLC

\* ------------------------------------------------------------------ bounds
MaxSessions == 1
MaxEvals == 2
MaxAnswers == 2
MaxMessages == 1
MaxResults == 2
MaxFeedback == 1
MaxUsers == 4
MaxResets == 2
MaxClock == 90
TickMinutes == 30
MaxComments == 1

\* --------------------------------------------------------- generic helpers
Range(s) == {s[i] : i \in 1..Len(s)}

RECURSIVE SumSeq(_)
SumSeq(s) == IF s = <<>> THEN 0 ELSE Head(s) + SumSeq(Tail(s))

RECURSIVE Flatten(_)
Flatten(ss) == IF ss = <<>> THEN <<>> ELSE Head(ss) \o Flatten(Tail(ss))

\* --------------------------------------------------------- text operations
Whitespace == {" ", "\n"}
Digits == {"0", "1", "2", "3", "4", "5", "6", "7", "8", "9"}

DigitVal(c) ==
    CASE c = "0" -> 0 [] c = "1" -> 1 [] c = "2" -> 2 [] c = "3" -> 3
      [] c = "4" -> 4 [] c = "5" -> 5 [] c = "6" -> 6 [] c = "7" -> 7
      [] c = "8" -> 8 [] c = "9" -> 9 [] OTHER -> 0

\* str.strip(): drop leading and trailing whitespace
RECURSIVE LStrip(_)
LStrip(s) == IF s # <<>> /\ Head(s) \in Whitespace THEN LStrip(Tail(s)) ELSE s

RECURSIVE RStrip(_)
RStrip(s) ==
    IF s # <<>> /\ s[Len(s)] \in Whitespace THEN RStrip(SubSeq(s, 1, Len(s) - 1)) ELSE s

Strip(s) == RStrip(LStrip(s))

\* str.split(): the maximal runs of non-whitespace characters, in order
RECURSIVE SplitWords(_, _)
SplitWords(s, cur) ==
    IF s = <<>> THEN (IF cur = <<>> THEN <<>> ELSE <<cur>>)
    ELSE IF Head(s) \in Whitespace
         THEN (IF cur = <<>> THEN <<>> ELSE <<cur>>) \o SplitWords(Tail(s), <<>>)
         ELSE SplitWords(Tail(s), Append(cur, Head(s)))

\* sep.join(parts)
RECURSIVE Join(_, _)
Join(parts, sep) ==
    IF parts = <<>> THEN <<>>
    ELSE IF Len(parts) = 1 THEN Head(parts)
    ELSE Head(parts) \o sep \o Join(Tail(parts), sep)

\* _normalize_text: " ".join((s or "").strip().split())
normalize_text(s) == Join(SplitWords(Strip(s), <<>>), <<" ">>)

\* str.replace(",", ".")
ReplaceComma(s) == [i \in 1..Len(s) |-> IF s[i] = "," THEN "." ELSE s[i]]

\* float(str): optional surrounding whitespace, digits with at most one
\* decimal point and at least one digit.  The value is in hundredths.
RECURSIVE IntOfDigits(_, _)
IntOfDigits(s, acc) ==
    IF s = <<>> THEN acc ELSE IntOfDigits(Tail(s), 10 * acc + DigitVal(Head(s)))

DotPos(s) == IF \E i \in 1..Len(s) : s[i] = "." THEN CHOOSE i \in 1..Len(s) : s[i] = "." ELSE 0

FloatSyntaxOk(t) ==
    /\ t # <<>>
    /\ \A i \in 1..Len(t) : t[i] \in Digits \cup {"."}
    /\ Cardinality({i \in 1..Len(t) : t[i] = "."}) <= 1
    /\ \E i \in 1..Len(t) : t[i] \in Digits

FloatValue(t) ==
    LET d == DotPos(t)
        ip == IF d = 0 THEN t ELSE SubSeq(t, 1, d - 1)
        fp == IF d = 0 THEN <<>> ELSE SubSeq(t, d + 1, Len(t))
        f2 == IF Len(fp) = 0 THEN 0
              ELSE IF Len(fp) = 1 THEN 10 * DigitVal(fp[1])
              ELSE 10 * DigitVal(fp[1]) + DigitVal(fp[2])
    IN 100 * IntOfDigits(ip, 0) + f2

\* result of a conversion that may raise: ok = FALSE stands for the exception
Raised == [ok |-> FALSE, v |-> 0]
Value(n) == [ok |-> TRUE, v |-> n]

FloatOfStr(s) == LET t == Strip(s) IN IF FloatSyntaxOk(t) THEN Value(FloatValue(t)) ELSE Raised

\* --------------------------------------------------------- JSON values
\* a JSON value of the selected_options column: number, string, null or list
JNum(n) == [t |-> "num", n |-> n, s |-> <<>>, l |-> <<>>]
JStr(s) == [t |-> "str", n |-> 0, s |-> s, l |-> <<>>]
JNull == [t |-> "null", n |-> 0, s |-> <<>>, l |-> <<>>]
JList(l) == [t |-> "list", n |-> 0, s |-> <<>>, l |-> l]

\* float(x) of a JSON value: numbers convert, strings are parsed, None and
\* lists raise TypeError
FloatOf(j) ==
    CASE j.t = "num" -> Value(j.n)
      [] j.t = "str" -> FloatOfStr(j.s)
      [] OTHER -> Raised

\* selected_options: None, or a dict given by its keys and their values
NoOptions == [isdict |-> FALSE, keys |-> {}, scale |-> JNull, value |-> JNull, selected |-> JNull]
OptScale(j) == [isdict |-> TRUE, keys |-> {"scale"}, scale |-> j, value |-> JNull, selected |-> JNull]
OptValue(j) == [isdict |-> TRUE, keys |-> {"value"}, scale |-> JNull, value |-> j, selected |-> JNull]
OptSelected(j) == [isdict |-> TRUE, keys |-> {"selected"}, scale |-> JNull, value |-> JNull, selected |-> j]
OptEmpty == [isdict |-> TRUE, keys |-> {}, scale |-> JNull, value |-> JNull, selected |-> JNull]

\* --------------------------------------------------------- fixed data
riasec_types == <<"R", "I", "A", "S", "E", "C">>
RiasecSet == Range(riasec_types)

\* str.upper() on the category suffixes that occur in the question table
Upper(w) ==
    CASE w = "r" -> "R" [] w = "i" -> "I" [] w = "a" -> "A"
      [] w = "s" -> "S" [] w = "e" -> "E" [] w = "c" -> "C"
      [] w = "realista" -> "REALISTA" [] w = "investigativo" -> "INVESTIGATIVO"
      [] w = "social" -> "SOCIAL" [] w = "x" -> "X"
      [] OTHER -> w

\* the synonyms table of aggregate_answers_for_evaluation; "" stands for None
synonyms(k) ==
    CASE k \in {"R", "REALISTA", "REALISTIC"} -> "R"
      [] k \in {"I", "INVESTIGATIVO", "INVESTIGATIVE", "INVESTIGADOR"} -> "I"
      [] k \in {"A", "ARTISTICO", "ARTÍSTICO", "ARTISTIC"} -> "A"
      [] k \in {"S", "SOCIAL"} -> "S"
      [] k \in {"E", "EMPRENDEDOR", "ENTERPRISING"} -> "E"
      [] k \in {"C", "CONVENCIONAL", "CONVENTIONAL"} -> "C"
      [] OTHER -> ""

\* A category is the sequence of its "_"-separated segments (<<>> is None or
\* ""), so category.startswith("riasec_") is: first segment "riasec" and a
\* second segment exists; split("_")[-1] is the last segment.
cat_key_of(category) ==
    IF Len(category) >= 2 /\ category[1] = "riasec"
    THEN synonyms(Upper(category[Len(category)]))
    ELSE ""

\* Question.options of a scale question: the two bounds and the anchors, a
\* dictionary from "1".."5" to a label.  A NULL column reads as the empty
\* dictionary (options or {}).
AnchorKeys == {"1", "2", "3", "4", "5"}

seed_anchors ==
    [k \in AnchorKeys |->
        CASE k = "1" -> "Nada interesante" [] k = "2" -> "Poco interesante"
          [] k = "3" -> "Neutral" [] k = "4" -> "Interesante"
          [] OTHER -> "Muy interesante"]

scale_options == [scale_min |-> JNum(100), scale_max |-> JNum(500), anchors |-> seed_anchors]

NullOptions == [scale_min |-> JNull, scale_max |-> JNull, anchors |-> [k \in {} |-> ""]]

\* anchors that only repeat their key, with the bounds set
KeyAnchors == [scale_min |-> JNum(100), scale_max |-> JNum(500),
               anchors |-> [k \in AnchorKeys |-> k]]

\* the questions table: the kinds of row the handlers distinguish (scale
\* questions as the seed writes them, scale questions without usable
\* anchors, an open-text and a multiple-choice question)
QuestionCatalog == <<
    [question_id |-> 1, question_type |-> "scale", category |-> <<"riasec", "R">>,
     display_order |-> 2, compatible_modes |-> "guided", options |-> scale_options],
    [question_id |-> 2, question_type |-> "scale", category |-> <<"riasec", "investigativo">>,
     display_order |-> 1, compatible_modes |-> "guided", options |-> NullOptions],
    [question_id |-> 3, question_type |-> "open_text", category |-> <<"interests">>,
     display_order |-> 3, compatible_modes |-> "open", options |-> NullOptions],
    [question_id |-> 4, question_type |-> "scale", category |-> <<>>,
     display_order |-> 4, compatible_modes |-> "both", options |-> KeyAnchors],
    [question_id |-> 5, question_type |-> "multiple_choice", category |-> <<"riasec", "a">>,
     display_order |-> 5, compatible_modes |-> "guided", options |-> NullOptions],
    [question_id |-> 6, question_type |-> "scale", category |-> <<"riasec", "x">>,
     display_order |-> 6, compatible_modes |-> "guided", options |-> scale_options] >>

\* users: student 1, evaluator 3
Students == {1}
Evaluators == {3}

VARIABLES
    sessions,      \* chat_sessions rows, in insertion order
    evaluations,   \* evaluations rows
    answers,       \* user_answers rows
    messages,      \* chat_messages rows
    results,       \* evaluation_results rows
    feedbacks,     \* student_feedback rows
    comments,      \* evaluator_comments rows
    questions,     \* questions rows
    assignments,   \* evaluator_assignments, as <<evaluator_id, student_id>> pairs
    rf_model,      \* module-level artifacts of model_service: "None", "ok" or "bad"
    vectorizer,    \*   ("bad": an object was loaded but using it raises)
    centroids,
    loaders,       \* where each worker thread is inside load_models_if_needed
    writes,        \* history: how many times each module-level artifact was assigned
    nextId,        \* next primary key of each table
    last,          \* the last handler call and what it returned
    users,         \* users rows
    password_resets, \* password_resets rows
    now,           \* datetime.now(timezone.utc), in minutes
    issued,        \* the access tokens handed out by POST /token
    minted,        \* how many password-reset tokens secrets.token_urlsafe has produced
    redeemed,      \* ghost: the reset tokens that have changed a password
    reply,         \* ghost: the body of the last response of the authentication routes
    genLog         \* history: the inputs and output of each compute-and-store run

vars == <<sessions, evaluations, answers, messages, results, feedbacks, comments,
          questions, assignments, rf_model, vectorizer, centroids, loaders, writes,
          users, password_resets, now, issued, minted, redeemed, reply,
          nextId, last, genLog>>

tables == <<sessions, evaluations, answers, messages, results, feedbacks, comments,
            questions, assignments>>

artifacts == <<rf_model, vectorizer, centroids>>

loading == <<loaders, writes>>

accounts == <<users, password_resets, now, issued, minted, redeemed, reply>>

\* --------------------------------------------------------- queries
Rows(table, P(_)) == SelectSeq(table, P)

SessionOf(sid, uid) ==
    Rows(sessions, LAMBDA r : r.session_id = sid /\ r.user_id = uid)

EvaluationsOfSession(sid) == Rows(evaluations, LAMBDA r : r.session_id = sid)

EvaluationById(eid) == Rows(evaluations, LAMBDA r : r.evaluation_id = eid)

QuestionById(qid) == Rows(questions, LAMBDA r : r.question_id = qid)

\* order_by(sent_at.asc()): stable insertion sort
RECURSIVE InsertBySentAt(_, _)
InsertBySentAt(sorted, m) ==
    IF sorted = <<>> THEN <<m>>
    ELSE IF Head(sorted).sent_at <= m.sent_at
         THEN <<Head(sorted)>> \o InsertBySentAt(Tail(sorted), m)
         ELSE <<m>> \o sorted

RECURSIVE SortBySentAt(_)
SortBySentAt(ms) ==
    IF ms = <<>> THEN <<>>
    ELSE InsertBySentAt(SortBySentAt(SubSeq(ms, 1, Len(ms) - 1)), ms[Len(ms)])

\* the value read from selected_options: raised stands for an exception of
\* float() on "scale" or "value", which leaves the whole try block
parsed(f, fatal) == [raised |-> fatal /\ ~f.ok, val |-> f]

\* the fallback on the text of a scale question when no value was read
value_or_text(structured, ans, q) ==
    IF structured.raised THEN Raised
    ELSE IF structured.val.ok THEN structured.val
    ELSE IF q.question_type = "scale" /\ ans.answer_text # <<>>
         THEN FloatOfStr(ReplaceComma(Strip(ans.answer_text)))
         ELSE Raised

\* scale_value reading the last element of the selection list
scale_value_last_selected(ans, q) ==
    value_or_text(
        IF ~(ans.selected_options.isdict /\ ans.selected_options.keys # {})
        THEN parsed(Raised, FALSE)
        ELSE IF "scale" \in ans.selected_options.keys
             THEN parsed(FloatOf(ans.selected_options.scale), TRUE)
        ELSE IF "value" \in ans.selected_options.keys
             THEN parsed(FloatOf(ans.selected_options.value), TRUE)
        ELSE IF /\ "selected" \in ans.selected_options.keys
                /\ ans.selected_options.selected.t = "list"
                /\ Len(ans.selected_options.selected.l) > 0
             THEN parsed(FloatOf(ans.selected_options.selected.l[
                                     Len(ans.selected_options.selected.l)]), FALSE)
        ELSE parsed(Raised, FALSE),
        ans, q)

\* the value of one answer (lines 138-159): Raised when val stays None
scale_value(ans, q) ==
    value_or_text(
        IF ~(ans.selected_options.isdict /\ ans.selected_options.keys # {})
        THEN parsed(Raised, FALSE)
        ELSE IF "scale" \in ans.selected_options.keys
             THEN parsed(FloatOf(ans.selected_options.scale), TRUE)
        ELSE IF "value" \in ans.selected_options.keys
             THEN parsed(FloatOf(ans.selected_options.value), TRUE)
        ELSE IF /\ "selected" \in ans.selected_options.keys
                /\ ans.selected_options.selected.t = "list"
                /\ Len(ans.selected_options.selected.l) > 0
             THEN parsed(FloatOf(ans.selected_options.selected.l[1]), FALSE)
        ELSE parsed(Raised, FALSE),
        ans, q)

join_question(mine) ==
    [i \in 1..Len(mine) |-> [ans |-> mine[i], q |-> QuestionById(mine[i].question_id)[1]]]

\* rows of the join user_answers x questions for one evaluation
answer_rows(eid) ==
    join_question(Rows(answers, LAMBDA a : a.evaluation_id = eid /\ QuestionById(a.question_id) # <<>>))

\* mcq_scores[cat_key] += val, when there is a value and a RIASEC key
add_score(acc, key, val) ==
    IF val.ok /\ key # "" /\ key \in RiasecSet
    THEN [acc EXCEPT ![key] = @ + val.v] ELSE acc

RECURSIVE mcq_fold(_, _)
mcq_fold(rows, acc) ==
    IF rows = <<>> THEN acc
    ELSE mcq_fold(Tail(rows),
                  add_score(acc, cat_key_of(Head(rows).q.category),
                            scale_value(Head(rows).ans, Head(rows).q)))

\* one round of the dedupe loop (lines 180-184)
add_part(out, t, nt) ==
    IF t # <<>> /\ nt # <<>> /\ nt \notin Range(out) THEN Append(out, nt) ELSE out

RECURSIVE dedup_fold(_, _)
dedup_fold(parts, out) ==
    IF parts = <<>> THEN out
    ELSE dedup_fold(Tail(parts), add_part(out, Head(parts), normalize_text(Head(parts))))

\* user_chat_msgs without the filter on the message type
user_chat_msgs_any_type(sid) ==
    SortBySentAt(Rows(messages, LAMBDA m : m.session_id = sid))

user_chat_msgs(sid) ==
    SortBySentAt(Rows(messages, LAMBDA m : m.session_id = sid /\ m.message_type = "user"))

answer_parts(withText) == [i \in 1..Len(withText) |-> Strip(withText[i].ans.answer_text)]

chat_parts(chat) == [i \in 1..Len(chat) |-> chat[i].content]

aggregate_rows(rows, session_id) ==
    [answers_text |->
         Join(dedup_fold(answer_parts(SelectSeq(rows, LAMBDA r : r.ans.answer_text # <<>>))
                             \o chat_parts(user_chat_msgs(session_id)),
                         <<>>),
              <<"\n">>),
     mcq_scores |-> mcq_fold(rows, [k \in RiasecSet |-> 0])]

aggregate_answers_for_evaluation(eid) ==
    IF EvaluationById(eid) = <<>>
    THEN [answers_text |-> <<>>, mcq_scores |-> [k \in RiasecSet |-> 0]]
    ELSE aggregate_rows(answer_rows(eid), EvaluationById(eid)[1].session_id)

\* --------------------------------------------------------- NLP scores
\* Stand-in for vectorizer.transform + cosine_similarity against the six
\* centroids: a fixed function of the text with values in tenths (TF-IDF
\* vectors are non-negative, so a similarity lies in 0..10).
Similarity(text, d) ==
    CASE d = "R" -> (IF "a" \in Range(text) THEN 10 ELSE 0)
      [] d = "I" -> (IF "b" \in Range(text) THEN 5 ELSE 0)
      [] OTHER -> 0

get_nlp_scores(text, vec, cen) ==
    IF text = <<>> \/ vec = "None" \/ cen = "None" THEN [d \in RiasecSet |-> 0]
    ELSE IF vec = "bad" \/ cen = "bad" THEN [d \in RiasecSet |-> 0]
    ELSE [d \in RiasecSet |-> Similarity(text, d)]

\* --------------------------------------------------------- final profile
max_mcq_per_dim == 30
max_nlp_per_dim == 1

\* WeightsFor with the guided weights in every mode
WeightsFor_ignoring_mode(chat_mode) == [mcq |-> 70, nlp |-> 30]

\* weights in hundredths
WeightsFor(chat_mode) ==
    IF chat_mode = "open" THEN [mcq |-> 0, nlp |-> 100] ELSE [mcq |-> 70, nlp |-> 30]

\* A profile value is kept exactly as a numerator over ProfileDen:
\*   weight_mcq * (mcq / 30) + weight_nlp * (nlp / 1.0)
\* with mcq in hundredths, nlp in tenths and the weights in hundredths.
ProfileDen == 300000

\* calculate_final_profile with the two weights swapped
calculate_final_profile_swapped(mcq_scores, nlp_scores, weight_mcq, weight_nlp) ==
    [d \in RiasecSet |->
        weight_nlp * mcq_scores[d] + (weight_mcq * nlp_scores[d] * 300) \div max_nlp_per_dim]

calculate_final_profile(mcq_scores, nlp_scores, weight_mcq, weight_nlp) ==
    [d \in RiasecSet |->
        weight_mcq * mcq_scores[d] + (weight_nlp * nlp_scores[d] * 300) \div max_nlp_per_dim]

\* a / b rounded to the nearest integer, ties to even (Python's round)
RoundDiv(a, b) ==
    LET q == a \div b
        r == a % b
    IN  IF 2 * r < b THEN q
        ELSE IF 2 * r > b THEN q + 1
        ELSE IF q % 2 = 0 THEN q ELSE q + 1

\* round(v, 4), in ten-thousandths
Round4(num) == RoundDiv(num, ProfileDen \div 10000)

\* --------------------------------------------------------- classifier
\* rf_model.classes_ (scikit-learn keeps the labels sorted)
classes == <<"Arte y Diseño", "Ciencias Sociales", "Deporte", "Educación", "Salud",
             "Tecnología">>

\* Stand-in for rf_model.predict_proba: a fixed function of the profile,
\* probabilities in hundredths, one per class.
predict_proba(profile) ==
    IF profile["R"] > profile["I"] THEN <<10, 20, 0, 0, 20, 50>>
    ELSE IF profile["R"] < profile["I"] THEN <<5, 5, 30, 30, 30, 0>>
    ELSE <<20, 20, 10, 10, 20, 20>>

\* list.sort(key = probability, reverse = True): stable, descending
RECURSIVE InsertByScoreDesc(_, _)
InsertByScoreDesc(sorted, x) ==
    IF sorted = <<>> THEN <<x>>
    ELSE IF Head(sorted).score >= x.score
         THEN <<Head(sorted)>> \o InsertByScoreDesc(Tail(sorted), x)
         ELSE <<x>> \o sorted

RECURSIVE SortByScoreDesc(_)
SortByScoreDesc(xs) ==
    IF xs = <<>> THEN <<>>
    ELSE InsertByScoreDesc(SortByScoreDesc(SubSeq(xs, 1, Len(xs) - 1)), xs[Len(xs)])

TopN == 3

\* the first three classes, without the sort
top3_categories_unsorted(profile) ==
    LET probs == predict_proba(profile)
        prob_list == [i \in 1..Len(classes) |-> [category |-> classes[i], score |-> probs[i]]]
    IN  SubSeq(prob_list, 1, IF Len(prob_list) < TopN THEN Len(prob_list) ELSE TopN)

top3_categories(profile) ==
    LET probs == predict_proba(profile)
        prob_list == [i \in 1..Len(classes) |-> [category |-> classes[i], score |-> probs[i]]]
        sorted == SortByScoreDesc(prob_list)
    IN  SubSeq(sorted, 1, IF Len(sorted) < TopN THEN Len(sorted) ELSE TopN)

\* --------------------------------------------------------- career catalog
MAPA_CARRERAS(cat) ==
    CASE cat = "Tecnología" ->
            <<"Ingeniería de Software", "Ciencia de Datos", "Ciberseguridad",
              "Ingeniería en Redes y Telecomunicaciones", "Desarrollo Web y Móvil (Full-Stack)",
              "Inteligencia Artificial y Machine Learning", "Ingeniería en Mecatrónica">>
      [] cat = "Ciencias Sociales" ->
            <<"Psicología", "Sociología", "Antropología", "Trabajo Social",
              "Ciencias Políticas", "Relaciones Internacionales", "Historia", "Derecho">>
      [] cat = "Arte y Diseño" ->
            <<"Diseño Gráfico", "Diseño de Modas", "Artes Visuales (Pintura, Escultura)",
              "Diseño Industrial", "Arquitectura", "Comunicación Audiovisual y Cine",
              "Diseño de Interiores", "Música">>
      [] cat = "Ciencias Naturales" ->
            <<"Biología", "Química", "Física", "Geología", "Ciencias Ambientales",
              "Biotecnología", "Matemáticas Puras / Estadística">>
      [] cat = "Negocios y Economía" ->
            <<"Administración de Empresas", "Contabilidad y Finanzas",
              "Marketing (Mercadotecnia)", "Economía", "Negocios Internacionales",
              "Gestión de Recursos Humanos", "Logística y Cadena de Suministro">>
      [] OTHER -> <<>>

PerCategory == 3

Prefix(s, n) == SubSeq(s, 1, IF Len(s) < n THEN Len(s) ELSE n)

\* --------------------------------------------------------- generative call
\* What the generative service does in one call: no client ("nomodel"), the
\* call raises, the reply text is empty, it is not JSON, or it is JSON whose
\* "top3_careers" is the list proposed.
GemNoModel == [kind |-> "nomodel", proposed |-> <<>>]
GemRaise == [kind |-> "raise", proposed |-> <<>>]
GemEmpty == [kind |-> "empty", proposed |-> <<>>]
GemBadJson == [kind |-> "badjson", proposed |-> <<>>]
GemJson(p) == [kind |-> "json", proposed |-> p]

Item(career, category, explanation) ==
    [career |-> career, category |-> category, explanation |-> explanation]

\* the first loop without the test of the career against the catalog
RECURSIVE filter_proposed_any_career(_, _, _)
filter_proposed_any_career(proposed, cats, by_cat) ==
    IF proposed = <<>> THEN by_cat
    ELSE LET item == Head(proposed)
             cat == item.category
             keep == cat \in Range(cats) /\ Len(by_cat[cat]) < PerCategory
         IN  filter_proposed_any_career(Tail(proposed), cats,
                 IF keep THEN [by_cat EXCEPT ![cat] = Append(@, item)] ELSE by_cat)

\* first loop of _filter_and_fill: keep the proposals of the catalog
RECURSIVE filter_proposed(_, _, _)
filter_proposed(proposed, cats, by_cat) ==
    IF proposed = <<>> THEN by_cat
    ELSE LET item == Head(proposed)
             cat == item.category
             keep == /\ cat \in Range(cats)
                     /\ item.career \in Range(MAPA_CARRERAS(cat))
                     /\ Len(by_cat[cat]) < PerCategory
             entry == Item(item.career, cat,
                           IF item.explanation = "" 
                           THEN "Seleccionada del catálogo local según tu perfil."
                           ELSE item.explanation)
         IN  filter_proposed(Tail(proposed), cats,
                             IF keep THEN [by_cat EXCEPT ![cat] = Append(@, entry)] ELSE by_cat)

\* second loop: fill each category up to three from the local catalog
RECURSIVE fill_category(_, _, _)
fill_category(cat, names, chosen) ==
    IF names = <<>> \/ Len(chosen) >= PerCategory THEN chosen
    ELSE fill_category(cat, Tail(names),
            IF \E i \in 1..Len(chosen) : chosen[i].career = Head(names)
            THEN chosen
            ELSE Append(chosen, Item(Head(names), cat,
                     "Seleccionada del catálogo local según tu perfil RIASEC.")))

\* _filter_and_fill without its second loop
filter_without_fill(proposed, ordered_categories) ==
    LET by_cat0 == [c \in Range(ordered_categories) |-> <<>>]
        by_cat1 == filter_proposed(proposed, ordered_categories, by_cat0)
    IN  Flatten([i \in 1..Len(ordered_categories) |->
                    Prefix(by_cat1[ordered_categories[i]], PerCategory)])

filter_and_fill(proposed, ordered_categories) ==
    LET by_cat0 == [c \in Range(ordered_categories) |-> <<>>]
        by_cat1 == filter_proposed(proposed, ordered_categories, by_cat0)
        by_cat2 == [c \in Range(ordered_categories) |->
                        fill_category(c, MAPA_CARRERAS(c), by_cat1[c])]
    IN  Flatten([i \in 1..Len(ordered_categories) |->
                    Prefix(by_cat2[ordered_categories[i]], PerCategory)])

fallback_list(ordered_categories) ==
    Flatten([i \in 1..Len(ordered_categories) |->
        LET cat == ordered_categories[i]
            names == Prefix(MAPA_CARRERAS(cat), PerCategory)
        IN  [j \in 1..Len(names) |->
                Item(names[j], cat,
                     "Seleccionada del catálogo autorizado por coincidencia de categoría.")]])

generate_specific_career_recommendations(top3, gem) ==
    LET ordered_categories == [i \in 1..Len(top3) |-> top3[i].category]
    IN  IF gem.kind = "json"
        THEN filter_and_fill(gem.proposed, ordered_categories)
        ELSE fallback_list(ordered_categories)

\* --------------------------------------------------------- compute-and-store
ZeroProfile == [d \in RiasecSet |-> 0]

MetricsStatic == {<<"model_accuracy_static", 925>>}
MetricsNotLoaded == {<<"model_accuracy_static", 0>>, <<"error_models_not_loaded", 1000>>}

ArtifactStates == {"None", "ok", "bad"}

\* load_models_if_needed for one artifact: joblib.load runs only while the
\* global is None; loaded is what that load gives ("None": it failed)
load_if_needed(current, loaded) == IF current = "None" THEN loaded ELSE current

\* 1 when a call that found the global at `current` assigned it
Assigned(current, after) == IF current = "None" /\ after # "None" THEN 1 ELSE 0

\* the threads of the server's pool that run the synchronous handlers
Workers == {1, 2}

NoWrites == [rf_model |-> 0, vectorizer |-> 0, centroids |-> 0]

\* the three globals in the order load_models_if_needed goes through them
LoadOrder == <<"rf_model", "vectorizer", "centroids">>

\* a thread outside load_models_if_needed; at the `is None` test of the
\* k-th global; inside joblib.load for it
IdleLoader == [stage |-> "idle", k |-> 0]
TestingLoader(k) == [stage |-> "test", k |-> k]
LoadingLoader(k) == [stage |-> "load", k |-> k]

\* after the k-th global: the test of the next one, or the return
AfterGlobal(k) == IF k < Len(LoadOrder) THEN TestingLoader(k + 1) ELSE IdleLoader

GlobalValue(name) ==
    CASE name = "rf_model" -> rf_model
      [] name = "vectorizer" -> vectorizer
      [] OTHER -> centroids

\* a request handler calls load_models_if_needed on thread t
load_models_begin(t) ==
    /\ loaders[t] = IdleLoader
    /\ loaders' = [loaders EXCEPT ![t] = TestingLoader(1)]
    /\ UNCHANGED <<tables, artifacts, writes, accounts, nextId, last, genLog>>

\* `if <global> is None:` (lines 57, 69, 81)
load_models_test(t) ==
    /\ loaders[t].stage = "test"
    /\ loaders' = [loaders EXCEPT ![t] =
                       IF GlobalValue(LoadOrder[loaders[t].k]) = "None"
                       THEN LoadingLoader(loaders[t].k)
                       ELSE AfterGlobal(loaders[t].k)]
    /\ UNCHANGED <<tables, artifacts, writes, accounts, nextId, last, genLog>>

\* `<global> = joblib.load(path)` (lines 61, 73, 85): the assignment, or
\* the exception that skips it (loaded = "None")
load_models_store(t, loaded) ==
    /\ loaders[t].stage = "load"
    /\ LET name == LoadOrder[loaders[t].k]
       IN  /\ rf_model' = IF name = "rf_model" /\ loaded # "None" THEN loaded ELSE rf_model
           /\ vectorizer' = IF name = "vectorizer" /\ loaded # "None" THEN loaded
                            ELSE vectorizer
           /\ centroids' = IF name = "centroids" /\ loaded # "None" THEN loaded
                           ELSE centroids
           /\ writes' = IF loaded # "None" THEN [writes EXCEPT ![name] = @ + 1] ELSE writes
    /\ loaders' = [loaders EXCEPT ![t] = AfterGlobal(loaders[t].k)]
    /\ UNCHANGED <<tables, accounts, nextId, last, genLog>>

\* the chat mode that selects the weights
resolve_chat_mode(eid) ==
    IF EvaluationById(eid) = <<>> THEN "None"
    ELSE LET ev == EvaluationById(eid)[1]
             ss == Rows(sessions, LAMBDA r : r.session_id = ev.session_id)
         IN  IF ss # <<>> /\ ss[1].chat_mode # "" THEN ss[1].chat_mode ELSE ev.evaluation_mode

\* steps 5 to 7: the classifier, the career list and the values of the row
built_result(agg, chat_mode, nlp_scores, profile, rf, gem) ==
    [raised |-> rf = "bad", degraded |-> FALSE, chat_mode |-> chat_mode,
     generative |-> gem.kind,
     agg |-> agg, nlp |-> nlp_scores,
     riasec_scores |-> [d \in RiasecSet |-> Round4(profile[d])],
     probabilities |-> IF rf = "bad" THEN <<>> ELSE predict_proba(profile),
     top3 |-> IF rf = "bad" THEN <<>> ELSE top3_categories(profile),
     top_careers |-> IF rf = "bad" THEN <<>>
                     ELSE generate_specific_career_recommendations(
                              top3_categories(profile), gem),
     metrics |-> MetricsStatic]

\* step 4: the profile from the sums, the NLP scores and the mode's weights
profiled_result(agg, chat_mode, w, nlp_scores, rf, gem) ==
    built_result(agg, chat_mode, nlp_scores,
                 calculate_final_profile(agg.mcq_scores, nlp_scores, w.mcq, w.nlp), rf, gem)

\* step 3: the NLP scores of the aggregated text
scored_result(agg, chat_mode, rf, vec, cen, gem) ==
    profiled_result(agg, chat_mode, WeightsFor(chat_mode),
                    get_nlp_scores(agg.answers_text, vec, cen), rf, gem)

\* the result stored when the models are not loaded (lines 250-262)
degraded_result ==
    [raised |-> FALSE, degraded |-> TRUE, chat_mode |-> "None",
     generative |-> "notcalled",
     agg |-> [answers_text |-> <<>>, mcq_scores |-> ZeroProfile], nlp |-> ZeroProfile,
     riasec_scores |-> ZeroProfile, probabilities |-> <<>>, top3 |-> <<>>,
     top_careers |-> <<>>,
     metrics |-> MetricsNotLoaded]

\* generate_result whose guard only looks at the classifier
generate_result_checks_rf_only(eid, rf, vec, cen, gem) ==
    IF rf = "None"
    THEN degraded_result
    ELSE scored_result(aggregate_answers_for_evaluation(eid), resolve_chat_mode(eid),
                       rf, vec, cen, gem)

\* generate_and_save_results up to the row it adds: raised = TRUE when an
\* exception leaves the function (no row is added)
generate_result(eid, rf, vec, cen, gem) ==
    IF rf = "None" \/ vec = "None" \/ cen = "None"
    THEN degraded_result
    ELSE scored_result(aggregate_answers_for_evaluation(eid), resolve_chat_mode(eid),
                       rf, vec, cen, gem)

\* ensure_evaluation_for_session: the evaluation of the session (the first
\* one by primary key), or a new row
ensure_evaluation_for_session(user_id, session_id) ==
    LET found == EvaluationsOfSession(session_id)
        ss == Rows(sessions, LAMBDA r : r.session_id = session_id)
        eval_mode == IF ss # <<>> THEN ss[1].chat_mode ELSE "guided"
        fresh == [evaluation_id |-> nextId.evaluations, user_id |-> user_id,
                  session_id |-> session_id, evaluation_mode |-> eval_mode,
                  status |-> "in_progress"]
    IN  IF found # <<>>
        THEN [evaluation |-> found[1], created |-> FALSE, table |-> evaluations]
        ELSE [evaluation |-> fresh, created |-> TRUE, table |-> Append(evaluations, fresh)]

Bump(table) == [nextId EXCEPT ![table] = @ + 1]

Called(op, status, sid, eid, rid) ==
    [op |-> op, status |-> status, session_id |-> sid, evaluation_id |-> eid,
     result_id |-> rid, source_mode |-> -1, token |-> 0]

\* --------------------------------------------------------- accounts
\* config.Settings
ACCESS_TOKEN_EXPIRE_MINUTES == 30
PASSWORD_RESET_TOKEN_EXPIRE_MINUTES == 60

\* func.lower / str.lower on the e-mail addresses the model uses
Lower(email) == IF email = "Ana" THEN "ana" ELSE email

\* security.get_password_hash and security.verify_password
get_password_hash(password) == <<"hash", password>>
verify_password(password, password_hash) == password_hash = get_password_hash(password)

\* security.create_access_token: the claims of the signed token
create_access_token(sub) == [sub |-> sub, exp |-> now + ACCESS_TOKEN_EXPIRE_MINUTES]

\* security.verify_token: the subject of a token that has not expired,
\* "None" otherwise
verify_token(token) == IF now < token.exp THEN token.sub ELSE "None"

\* the users the process starts with: a student, an administrator, an evaluator
UserRow(uid, email, password, role) ==
    [user_id |-> uid, email |-> email, password_hash |-> get_password_hash(password),
     role |-> role, is_active |-> TRUE, last_login |-> -1]

Users0 == <<UserRow(1, "ana", "p1", "student"), UserRow(2, "root", "p2", "admin"),
            UserRow(3, "eva", "p3", "evaluator")>>

\* a response body: its keys and the values the model follows
Body(keys, detail, token, sent, uid) ==
    [keys |-> keys, detail |-> detail, token |-> token, sent |-> sent, user_id |-> uid]

Detail(detail) == Body({"detail"}, detail, 0, FALSE, 0)

NoReply == Body({}, "", 0, FALSE, 0)

NoAccountActivity ==
    /\ users = Users0
    /\ password_resets = <<>>
    /\ now = 0
    /\ issued = {}
    /\ minted = 0
    /\ redeemed = {}
    /\ reply = NoReply

\* filter(func.lower(User.email) == email.lower()).first()
UserByEmail(email) == Rows(users, LAMBDA r : Lower(r.email) = Lower(email))

UserById(uid) == Rows(users, LAMBDA r : r.user_id = uid)

\* the users table with row uid replaced by f(row)
UsersWith(uid, f(_)) ==
    [i \in 1..Len(users) |-> IF users[i].user_id = uid THEN f(users[i]) ELSE users[i]]

\* a call of the authentication routes: what was presented and the status
AuthCalled(op, status, token) == [Called(op, status, 0, 0, 0) EXCEPT !.token = token]

auth_rejected(op, status, token, detail) ==
    /\ last' = AuthCalled(op, status, token)
    /\ reply' = Detail(detail)
    /\ UNCHANGED <<tables, artifacts, loading, users, password_resets, now, issued, minted,
                   redeemed, nextId, genLog>>

\* deps.get_current_user: the user row of the token's subject, <<>> for
\* the 401 responses
get_current_user(token) ==
    IF verify_token(token) = "None" THEN <<>>
    ELSE Rows(UserByEmail(verify_token(token)), LAMBDA r : r.is_active)

\* POST /token, lines 36-44: the user is active
token_granted(user) ==
    /\ users' = UsersWith(user.user_id, LAMBDA r : [r EXCEPT !.last_login = now])
    /\ issued' = issued \cup {[token |-> create_access_token(Lower(user.email)),
                                user_id |-> user.user_id]}
    /\ last' = AuthCalled("login_for_access_token", 200, 0)
    /\ reply' = Body({"access_token", "token_type"}, "", 0, FALSE, user.user_id)
    /\ UNCHANGED <<tables, artifacts, loading, password_resets, now, minted, redeemed,
                   nextId, genLog>>

\* POST /token
login_for_access_token(username, password) ==
    LET user == UserByEmail(username)
    IN  IF user = <<>> \/ ~verify_password(password, user[1].password_hash)
        THEN auth_rejected("login_for_access_token", 401, 0, "Credenciales incorrectas")
        ELSE IF ~user[1].is_active
        THEN auth_rejected("login_for_access_token", 403, 0, "Usuario inactivo")
        ELSE token_granted(user[1])

\* GET /me with a bearer token
read_me(token) ==
    LET current_user == get_current_user(token.token)
    IN  /\ last' = AuthCalled("read_me", IF current_user = <<>> THEN 401 ELSE 200, token)
        /\ reply' = IF current_user = <<>> THEN Detail("Usuario no encontrado o inactivo")
                     ELSE Body({"user"}, "", 0, FALSE, current_user[1].user_id)
        /\ UNCHANGED <<tables, artifacts, loading, users, password_resets, now, issued,
                       minted, redeemed, nextId, genLog>>

\* POST /signup: the e-mail is compared as sent and stored in lower case;
\* the unique index on users.email refuses a second row with the same e-mail
create_student(email, password) ==
    IF Rows(users, LAMBDA r : r.email = email) # <<>>
    THEN auth_rejected("create_student", 400, 0, "Email ya registrado")
    ELSE IF Rows(users, LAMBDA r : r.email = Lower(email)) # <<>>
    THEN auth_rejected("create_student", 500, 0, "IntegrityError")
    ELSE /\ Len(users) < MaxUsers
         /\ users' = Append(users, UserRow(Len(users) + 1, Lower(email), password, "student"))
         /\ last' = AuthCalled("create_student", 200, 0)
         /\ reply' = Body({"user"}, "", 0, FALSE, Len(users) + 1)
         /\ UNCHANGED <<tables, artifacts, loading, password_resets, now, issued, minted,
                        redeemed, nextId, genLog>>

\* POST /password-reset/request, lines 75-93: the e-mail is registered.
\* debug is settings.DEBUG, sent what send_password_reset_email achieved;
\* secrets.token_urlsafe gives a token never seen before
reset_issued(user, debug, sent) ==
    /\ minted < MaxResets
    /\ minted' = minted + 1
    /\ password_resets' = Append(password_resets,
           [reset_id |-> minted + 1, user_id |-> user.user_id, token |-> minted + 1,
            expires_at |-> now + PASSWORD_RESET_TOKEN_EXPIRE_MINUTES])
    /\ last' = AuthCalled("request_password_reset", 200, 0)
    /\ reply' = Body({"detail", "token", "sent"}, "Si el correo existe, se ha enviado un enlace",
                     IF debug THEN minted + 1 ELSE 0, sent, 0)
    /\ UNCHANGED <<tables, artifacts, loading, users, now, issued, redeemed, nextId, genLog>>

\* POST /password-reset/request
request_password_reset(email, debug, sent) ==
    LET user == UserByEmail(email)
    IN  IF user # <<>>
        THEN reset_issued(user[1], debug, sent)
        ELSE /\ last' = AuthCalled("request_password_reset", 200, 0)
             /\ reply' = Detail("Si el correo existe, se ha enviado un enlace")
             /\ UNCHANGED <<tables, artifacts, loading, users, password_resets, now, issued,
                            minted, redeemed, nextId, genLog>>

\* the password_resets table without the row
WithoutReset(reset) == Rows(password_resets, LAMBDA r : r.reset_id # reset.reset_id)

\* confirm_stored that leaves the token in the table
confirm_stored_keeping_token(reset, token, new_password, user) ==
    /\ password_resets' = password_resets
    /\ IF reset.expires_at < now
       THEN /\ last' = AuthCalled("confirm_password_reset", 400, token)
            /\ reply' = Detail("Token expirado")
            /\ UNCHANGED <<users, redeemed>>
       ELSE IF user = <<>>
       THEN /\ last' = AuthCalled("confirm_password_reset", 404, token)
            /\ reply' = Detail("Usuario no encontrado")
            /\ UNCHANGED <<users, redeemed>>
       ELSE /\ users' = UsersWith(reset.user_id,
                   LAMBDA r : [r EXCEPT !.password_hash = get_password_hash(new_password)])
            /\ redeemed' = redeemed \cup {token}
            /\ last' = AuthCalled("confirm_password_reset", 200, token)
            /\ reply' = Detail("Contraseña actualizada")
    /\ UNCHANGED <<tables, artifacts, loading, now, issued, minted, nextId, genLog>>

\* lines 103-116: the token is stored
confirm_stored(reset, token, new_password, user) ==
    /\ password_resets' = WithoutReset(reset)
    /\ IF reset.expires_at < now
       THEN /\ last' = AuthCalled("confirm_password_reset", 400, token)
            /\ reply' = Detail("Token expirado")
            /\ UNCHANGED <<users, redeemed>>
       ELSE IF user = <<>>
       THEN /\ last' = AuthCalled("confirm_password_reset", 404, token)
            /\ reply' = Detail("Usuario no encontrado")
            /\ UNCHANGED <<users, redeemed>>
       ELSE /\ users' = UsersWith(reset.user_id,
                   LAMBDA r : [r EXCEPT !.password_hash = get_password_hash(new_password)])
            /\ redeemed' = redeemed \cup {token}
            /\ last' = AuthCalled("confirm_password_reset", 200, token)
            /\ reply' = Detail("Contraseña actualizada")
    /\ UNCHANGED <<tables, artifacts, loading, now, issued, minted, nextId, genLog>>

\* POST /password-reset/confirm
confirm_password_reset(token, new_password) ==
    LET reset == Rows(password_resets, LAMBDA r : r.token = token)
    IN  IF reset = <<>>
        THEN auth_rejected("confirm_password_reset", 400, token, "Token inválido")
        ELSE confirm_stored(reset[1], token, new_password, UserById(reset[1].user_id))

\* PUT /admin/users/{user_id}, lines 151-176; email and is_active are the
\* fields of UserUpdate that are sent: "None" for an e-mail left out, <<>>
\* for an is_active left out
update_fields(uid, email, is_active) ==
    IF UserById(uid) = <<>>
    THEN auth_rejected("update_user", 404, 0, "Usuario no encontrado")
    ELSE IF email # "None" /\ Rows(UserByEmail(email), LAMBDA r : r.user_id # uid) # <<>>
    THEN auth_rejected("update_user", 400, 0, "Email ya está en uso")
    ELSE /\ users' = UsersWith(uid, LAMBDA r :
                 [r EXCEPT !.email = IF email = "None" THEN @ ELSE Lower(email),
                           !.is_active = IF is_active = <<>> THEN @ ELSE is_active[1]])
         /\ last' = AuthCalled("update_user", 200, 0)
         /\ reply' = Body({"user"}, "", 0, FALSE, uid)
         /\ UNCHANGED <<tables, artifacts, loading, password_resets, now, issued, minted,
                        redeemed, nextId, genLog>>

\* PUT /admin/users/{user_id} behind get_current_admin
update_user(token, uid, email, is_active) ==
    LET current_user == get_current_user(token.token)
    IN  IF current_user = <<>>
        THEN auth_rejected("update_user", 401, token, "Usuario no encontrado o inactivo")
        ELSE IF current_user[1].role # "admin"
        THEN auth_rejected("update_user", 403, token,
                           "Se requieren privilegios de administrador")
        ELSE update_fields(uid, email, is_active)

\* time passes
Tick ==
    /\ now + TickMinutes <= MaxClock
    /\ now' = now + TickMinutes
    /\ UNCHANGED <<tables, artifacts, loading, users, password_resets, issued, minted,
                   redeemed, reply, nextId, last, genLog>>

\* --------------------------------------------------------- handlers
\* POST /chat/sessions
create_chat_session(u, mode) ==
    /\ nextId.sessions <= MaxSessions
    /\ sessions' = Append(sessions,
           [session_id |-> nextId.sessions, user_id |-> u, chat_mode |-> mode,
            conversation_stage |-> "welcome", status |-> "active",
            current_question_id |-> 0])
    /\ nextId' = Bump("sessions")
    /\ last' = Called("create_chat_session", 200, nextId.sessions, 0, 0)
    /\ UNCHANGED <<evaluations, answers, messages, results, feedbacks, comments,
                   questions, assignments, artifacts, loading, accounts, genLog>>

\* POST /chat/messages
create_chat_message(u, sid, mtype, content, order) ==
    /\ SessionOf(sid, u) # <<>>
    /\ messages' = Append(messages,
           [message_id |-> nextId.messages, session_id |-> sid, message_type |-> mtype,
            content |-> content, message_order |-> order, sent_at |-> nextId.messages])
    /\ nextId' = Bump("messages")
    /\ last' = Called("create_chat_message", 200, sid, 0, 0)
    /\ UNCHANGED <<sessions, evaluations, answers, results, feedbacks, comments,
                   questions, assignments, artifacts, loading, accounts, genLog>>

\* submit_answer that overwrites the stored answers to the same question
submit_answer_overwriting(u, sid, qid, text, opts) ==
    /\ SessionOf(sid, u) # <<>>
    /\ nextId.answers <= MaxAnswers
    /\ LET e == ensure_evaluation_for_session(u, sid)
       IN  /\ e.created => nextId.evaluations <= MaxEvals
           /\ evaluations' = e.table
           /\ answers' = Append(
                  [i \in 1..Len(answers) |->
                      IF answers[i].question_id = qid
                      THEN [answers[i] EXCEPT !.answer_text = text, !.selected_options = opts]
                      ELSE answers[i]],
                  [answer_id |-> nextId.answers, evaluation_id |-> e.evaluation.evaluation_id,
                   question_id |-> qid, answer_text |-> text, selected_options |-> opts])
           /\ nextId' = [nextId EXCEPT !.answers = @ + 1,
                                       !.evaluations = IF e.created THEN @ + 1 ELSE @]
           /\ last' = Called("submit_answer", 200, sid, e.evaluation.evaluation_id, 0)
    /\ UNCHANGED <<sessions, messages, results, feedbacks, comments,
                   questions, assignments, artifacts, loading, accounts, genLog>>

\* POST /chat/sessions/{session_id}/answers
submit_answer(u, sid, qid, text, opts) ==
    /\ SessionOf(sid, u) # <<>>
    /\ nextId.answers <= MaxAnswers
    /\ LET e == ensure_evaluation_for_session(u, sid)
       IN  /\ e.created => nextId.evaluations <= MaxEvals
           /\ evaluations' = e.table
           /\ answers' = Append(answers,
                  [answer_id |-> nextId.answers, evaluation_id |-> e.evaluation.evaluation_id,
                   question_id |-> qid, answer_text |-> text, selected_options |-> opts])
           /\ nextId' = [nextId EXCEPT !.answers = @ + 1,
                                       !.evaluations = IF e.created THEN @ + 1 ELSE @]
           /\ last' = Called("submit_answer", 200, sid, e.evaluation.evaluation_id, 0)
    /\ UNCHANGED <<sessions, messages, results, feedbacks, comments,
                   questions, assignments, artifacts, loading, accounts, genLog>>

\* POST /evaluations/
create_evaluation(u, sid, mode) ==
    /\ \E i \in 1..Len(sessions) : sessions[i].session_id = sid
    /\ nextId.evaluations <= MaxEvals
    /\ evaluations' = Append(evaluations,
           [evaluation_id |-> nextId.evaluations, user_id |-> u, session_id |-> sid,
            evaluation_mode |-> mode, status |-> "in_progress"])
    /\ nextId' = Bump("evaluations")
    /\ last' = Called("create_evaluation", 200, sid, nextId.evaluations, 0)
    /\ UNCHANGED <<sessions, answers, messages, results, feedbacks, comments,
                   questions, assignments, artifacts, loading, accounts, genLog>>

\* the end of complete_evaluation: the row generate_and_save_results adds
\* and the two status updates, or the exception leaving the handler
store_result(sid, e, eid, g) ==
    IF g.raised
    THEN /\ evaluations' = e.table
         /\ nextId' = [nextId EXCEPT !.evaluations = IF e.created THEN @ + 1 ELSE @]
         /\ last' = Called("complete_evaluation", 500, sid, eid, 0)
         /\ UNCHANGED <<sessions, results, genLog>>
    ELSE /\ results' = Append(results,
                [result_id |-> nextId.results, evaluation_id |-> eid,
                 riasec_scores |-> g.riasec_scores, top_careers |-> g.top_careers,
                 metrics |-> g.metrics, generated_at |-> nextId.results])
         /\ evaluations' =
                [i \in 1..Len(e.table) |->
                    IF e.table[i].evaluation_id = eid
                    THEN [e.table[i] EXCEPT !.status = "completed"]
                    ELSE e.table[i]]
         /\ sessions' =
                [i \in 1..Len(sessions) |->
                    IF sessions[i].session_id = sid
                    THEN [sessions[i] EXCEPT !.status = "completed",
                                             !.conversation_stage = "results"]
                    ELSE sessions[i]]
         /\ nextId' = [nextId EXCEPT
                          !.results = @ + 1,
                          !.evaluations = IF e.created THEN @ + 1 ELSE @]
         /\ genLog' = genLog \cup
                {[result_id |-> nextId.results, evaluation_id |-> eid,
                  chat_mode |-> g.chat_mode, degraded |-> g.degraded,
                  generative |-> g.generative,
                  stored_answers |-> Rows(answers, LAMBDA r : r.evaluation_id = eid),
                  mcq_scores |-> g.agg.mcq_scores,
                  answers_text |-> g.agg.answers_text,
                  nlp_scores |-> g.nlp,
                  riasec_scores |-> g.riasec_scores,
                  probabilities |-> g.probabilities,
                  top3 |-> g.top3,
                  top_careers |-> g.top_careers]}
         /\ last' = Called("complete_evaluation", 200, sid, eid, nextId.results)

\* load_models_if_needed, then generate_and_save_results on the evaluation
complete_with(sid, e, rf, vec, cen, gem) ==
    /\ e.created => nextId.evaluations <= MaxEvals
    /\ rf_model' = rf
    /\ vectorizer' = vec
    /\ centroids' = cen
    /\ writes' = [rf_model |-> writes.rf_model + Assigned(rf_model, rf),
                  vectorizer |-> writes.vectorizer + Assigned(vectorizer, vec),
                  centroids |-> writes.centroids + Assigned(centroids, cen)]
    /\ UNCHANGED <<loaders, accounts>>
    /\ store_result(sid, e, e.evaluation.evaluation_id,
                    generate_result(e.evaluation.evaluation_id, rf, vec, cen, gem))

\* POST /chat/sessions/{session_id}/complete
complete_evaluation(u, sid, load, gem) ==
    /\ SessionOf(sid, u) # <<>>
    /\ nextId.results <= MaxResults
    /\ complete_with(sid, ensure_evaluation_for_session(u, sid),
                     load_if_needed(rf_model, load[1]),
                     load_if_needed(vectorizer, load[2]),
                     load_if_needed(centroids, load[3]), gem)
    /\ UNCHANGED <<answers, messages, feedbacks, comments, questions, assignments>>

\* POST /students/evaluations/{evaluation_id}/feedback
submit_feedback(u, eid) ==
    /\ \E i \in 1..Len(evaluations) :
           evaluations[i].evaluation_id = eid /\ evaluations[i].user_id = u
    /\ nextId.feedbacks <= MaxFeedback
    /\ feedbacks' = Append(feedbacks,
           [feedback_id |-> nextId.feedbacks, evaluation_id |-> eid, user_id |-> u])
    /\ nextId' = Bump("feedbacks")
    /\ last' = Called("submit_feedback", 200, 0, eid, 0)
    /\ UNCHANGED <<sessions, evaluations, answers, messages, results, comments,
                   questions, assignments, artifacts, loading, accounts, genLog>>

\* POST /admin/assignments
assign_student_to_evaluator(student, evaluator) ==
    /\ student \in Students
    /\ evaluator \in Evaluators
    /\ <<evaluator, student>> \notin assignments
    /\ assignments' = assignments \cup {<<evaluator, student>>}
    /\ last' = Called("assign_student_to_evaluator", 200, 0, 0, 0)
    /\ UNCHANGED <<sessions, evaluations, answers, messages, results, feedbacks, comments,
                   questions, artifacts, loading, accounts, nextId, genLog>>

\* a request answered with an error status: nothing is written
refused(op, status, eid) ==
    /\ last' = Called(op, status, 0, eid, 0)
    /\ UNCHANGED <<tables, artifacts, loading, accounts, nextId, genLog>>

\* DELETE /admin/assignments/{assignment_id}: the row of the pair
delete_assignment(evaluator, student) ==
    IF <<evaluator, student>> \notin assignments
    THEN refused("delete_assignment", 404, 0)
    ELSE /\ assignments' = assignments \ {<<evaluator, student>>}
         /\ last' = Called("delete_assignment", 204, 0, 0, 0)
         /\ UNCHANGED <<sessions, evaluations, answers, messages, results, feedbacks,
                        comments, questions, artifacts, loading, accounts, nextId, genLog>>

\* lines 225-235: the comment row is added
comment_added(ev, eid) ==
    /\ nextId.comments <= MaxComments
    /\ comments' = Append(comments,
           [comment_id |-> nextId.comments, evaluation_id |-> eid, evaluator_id |-> ev])
    /\ nextId' = Bump("comments")
    /\ last' = Called("add_evaluation_comment", 200, 0, eid, 0)
    /\ UNCHANGED <<sessions, evaluations, answers, messages, results, feedbacks,
                   questions, assignments, artifacts, loading, accounts, genLog>>

\* add_evaluation_comment that does not look for the assignment
add_evaluation_comment_unassigned(ev, eid) ==
    IF EvaluationById(eid) = <<>>
    THEN refused("add_evaluation_comment", 404, eid)
    ELSE comment_added(ev, eid)

\* POST /evaluator/evaluations/{evaluation_id}/comments
add_evaluation_comment(ev, eid) ==
    IF EvaluationById(eid) = <<>>
    THEN refused("add_evaluation_comment", 404, eid)
    ELSE IF <<ev, EvaluationById(eid)[1].user_id>> \notin assignments
    THEN refused("add_evaluation_comment", 403, eid)
    ELSE comment_added(ev, eid)

\* GET /evaluator/evaluations/{evaluation_id}/comments
list_evaluation_comments(ev, eid) ==
    IF EvaluationById(eid) = <<>>
    THEN refused("list_evaluation_comments", 404, eid)
    ELSE IF <<ev, EvaluationById(eid)[1].user_id>> \notin assignments
    THEN refused("list_evaluation_comments", 403, eid)
    ELSE refused("list_evaluation_comments", 200, eid)

\* DELETE /chat/sessions/{session_id}: the manual cascade.  Only the first
\* evaluation of the session is looked up and deleted with its dependents.
delete_chat_session(u, sid) ==
    /\ SessionOf(sid, u) # <<>>
    /\ LET found == EvaluationsOfSession(sid)
           eid == IF found # <<>> THEN found[1].evaluation_id ELSE 0
       IN  /\ messages' = Rows(messages, LAMBDA r : r.session_id # sid)
           /\ answers' = Rows(answers, LAMBDA r : r.evaluation_id # eid)
           /\ results' = Rows(results, LAMBDA r : r.evaluation_id # eid)
           /\ feedbacks' = Rows(feedbacks, LAMBDA r : r.evaluation_id # eid)
           /\ comments' = Rows(comments, LAMBDA r : r.evaluation_id # eid)
           /\ evaluations' = Rows(evaluations, LAMBDA r : r.evaluation_id # eid)
           /\ sessions' = Rows(sessions, LAMBDA r : r.session_id # sid)
           /\ last' = Called("delete_chat_session", 200, sid, eid, 0)
    /\ UNCHANGED <<questions, assignments, artifacts, loading, accounts, nextId, genLog>>

\* The same request when the database enforces the foreign key of
\* evaluations.session_id: a second evaluation still references the session,
\* the commit raises and the transaction is rolled back.
delete_chat_session_rejected(u, sid) ==
    /\ SessionOf(sid, u) # <<>>
    /\ Len(EvaluationsOfSession(sid)) > 1
    /\ last' = Called("delete_chat_session", 500, sid, 0, 0)
    /\ UNCHANGED <<tables, artifacts, loading, accounts, nextId, genLog>>

\* POST /user-answers/: the row is added as sent
create_user_answer(u, eid, qid, text, opts) ==
    /\ EvaluationById(eid) # <<>>
    /\ nextId.answers <= MaxAnswers
    /\ answers' = Append(answers,
           [answer_id |-> nextId.answers, evaluation_id |-> eid,
            question_id |-> qid, answer_text |-> text, selected_options |-> opts])
    /\ nextId' = Bump("answers")
    /\ last' = Called("create_user_answer", 200, 0, eid, 0)
    /\ UNCHANGED <<sessions, evaluations, messages, results, feedbacks, comments,
                   questions, assignments, artifacts, loading, accounts, genLog>>

\* --------------------------------------------------------- guided questions
guided_compatible(q) == q.compatible_modes \in {"guided", "both"}

\* .first() without the order_by: the first row by primary key
FirstByPrimaryKey(rows) == rows[1]

\* order_by(display_order.asc()).first(): the rows of least display_order,
\* the first of them by primary key
FirstByDisplayOrder(rows) ==
    LET least == Rows(rows, LAMBDA r : \A i \in 1..Len(rows) :
                                           r.display_order <= rows[i].display_order)
    IN  least[1]

\* the candidates of the query of get_next_question: after the current
\* question when the session has one, from the start otherwise
later_questions(current_question_id) ==
    IF current_question_id # 0
    THEN LET current_q == QuestionById(current_question_id)[1]
         IN  Rows(questions, LAMBDA r : /\ r.display_order > current_q.display_order
                                        /\ guided_compatible(r))
    ELSE Rows(questions, LAMBDA r : guided_compatible(r))

default_anchors ==
    [k \in AnchorKeys |->
        CASE k = "1" -> "Totalmente en desacuerdo" [] k = "2" -> "En desacuerdo"
          [] k = "3" -> "Neutral" [] k = "4" -> "De acuerdo"
          [] OTHER -> "Totalmente de acuerdo"]

\* str(anchors.get(k, "")).strip() on the labels of the question table
anchor_text(anchors, k) == IF k \in DOMAIN anchors THEN anchors[k] ELSE ""

\* the anchor is missing, empty, or only repeats its key
anchor_unusable(anchors, k) == anchor_text(anchors, k) = "" \/ anchor_text(anchors, k) = k

\* the options get_next_question leaves on the question it serves (lines
\* 160-187): a scale question gets the default anchors and bounds it lacks
normalized_options(q) ==
    IF q.question_type # "scale" THEN q.options
    ELSE LET opts == q.options
             changed == \/ \E k \in AnchorKeys : anchor_unusable(opts.anchors, k)
                        \/ opts.scale_min = JNull
                        \/ opts.scale_max = JNull
         IN  IF ~changed THEN opts
             ELSE [scale_min |-> IF opts.scale_min = JNull THEN JNum(100) ELSE opts.scale_min,
                   scale_max |-> IF opts.scale_max = JNull THEN JNum(500) ELSE opts.scale_max,
                   anchors |-> [k \in AnchorKeys \cup DOMAIN opts.anchors |->
                                   IF k \in AnchorKeys /\ anchor_unusable(opts.anchors, k)
                                   THEN default_anchors[k]
                                   ELSE opts.anchors[k]]]

\* the 404 answers of get_next_question: nothing is written
no_question(sid) ==
    /\ last' = Called("get_next_question", 404, sid, 0, 0)
    /\ UNCHANGED <<tables, artifacts, loading, accounts, nextId, genLog>>

\* the end of get_next_question: the options assigned on the row, the
\* session's pointer, and the commit of both
serve_question(sid, next_question) ==
    /\ questions' =
           [i \in 1..Len(questions) |->
               IF questions[i].question_id = next_question.question_id
               THEN [questions[i] EXCEPT !.options = normalized_options(next_question)]
               ELSE questions[i]]
    /\ sessions' =
           [i \in 1..Len(sessions) |->
               IF sessions[i].session_id = sid
               THEN [sessions[i] EXCEPT !.current_question_id = next_question.question_id]
               ELSE sessions[i]]
    /\ last' = Called("get_next_question", 200, sid, 0, 0)
    /\ UNCHANGED <<evaluations, answers, messages, results, feedbacks, comments,
                   assignments, artifacts, loading, accounts, nextId, genLog>>

next_of_session(sid, found) ==
    IF found = <<>> THEN no_question(sid) ELSE serve_question(sid, FirstByDisplayOrder(found))

\* GET /chat/sessions/{session_id}/next-question
get_next_question(u, sid) ==
    LET session == Rows(sessions, LAMBDA r : /\ r.session_id = sid /\ r.user_id = u
                                             /\ r.chat_mode = "guided")
    IN  IF session = <<>> THEN no_question(sid)
        ELSE next_of_session(sid, later_questions(session[1].current_question_id))

\* --------------------------------------------------------- result reads
\* metrics.get(key) on the stored dictionary
MetricGet(metrics, key) ==
    IF \E kv \in metrics : kv[1] = key
    THEN JNum((CHOOSE kv \in metrics : kv[1] = key)[2])
    ELSE JNull

\* the source_mode get_session_results reports (lines 584-604), in
\* thousandths: the stored number, else 1.0 for the text "open", else 0.0
reported_source_mode(metrics) ==
    LET sm == MetricGet(metrics, "source_mode")
    IN  IF sm.t = "num" THEN sm.n
        ELSE IF sm.t = "str" /\ sm.s = <<"o", "p", "e", "n">> THEN 1000
        ELSE 0

\* order_by(generated_at.desc()).first()
LatestResult(rows) ==
    Rows(rows, LAMBDA r : \A i \in 1..Len(rows) : rows[i].generated_at <= r.generated_at)[1]

ResultsOf(eid) == Rows(results, LAMBDA r : r.evaluation_id = eid)

read_failed(op, status, sid, eid) ==
    /\ last' = Called(op, status, sid, eid, 0)
    /\ UNCHANGED <<tables, artifacts, loading, accounts, nextId, genLog>>

read_returned(op, sid, result, source_mode) ==
    /\ last' = [Called(op, 200, sid, result.evaluation_id, result.result_id)
                   EXCEPT !.source_mode = source_mode]
    /\ UNCHANGED <<tables, artifacts, loading, accounts, nextId, genLog>>

session_results_of(sid, found) ==
    IF found = <<>> THEN read_failed("get_session_results", 404, sid, 0)
    ELSE read_returned("get_session_results", sid, LatestResult(found),
                       reported_source_mode(LatestResult(found).metrics))

\* GET /chat/sessions/{session_id}/results
get_session_results(u, sid) ==
    LET evaluation == EvaluationsOfSession(sid)
    IN  IF evaluation = <<>> \/ evaluation[1].user_id # u
        THEN read_failed("get_session_results", 404, sid, 0)
        ELSE session_results_of(sid, ResultsOf(evaluation[1].evaluation_id))

\* query.filter(evaluation_id == ...).first() with no ORDER BY: the
\* database may hand back any of the matching rows
any_result_of(op, eid, found) ==
    IF found = <<>> THEN read_failed(op, 404, 0, eid)
    ELSE \E i \in 1..Len(found) : read_returned(op, 0, found[i], -1)

\* GET /students/evaluations/{evaluation_id}/results
get_my_evaluation_results(u, eid) ==
    IF Rows(evaluations, LAMBDA r : r.evaluation_id = eid /\ r.user_id = u) = <<>>
    THEN read_failed("get_my_evaluation_results", 404, 0, eid)
    ELSE any_result_of("get_my_evaluation_results", eid, ResultsOf(eid))

\* GET /evaluator/evaluations/{evaluation_id}/results
get_evaluation_results(ev, eid) ==
    IF EvaluationById(eid) = <<>>
    THEN read_failed("get_evaluation_results", 404, 0, eid)
    ELSE IF <<ev, EvaluationById(eid)[1].user_id>> \notin assignments
    THEN read_failed("get_evaluation_results", 403, 0, eid)
    ELSE any_result_of("get_evaluation_results", eid, ResultsOf(eid))

\* --------------------------------------------------------- open chat
\* str.lower() and the accent replacement of _normalize, letter by letter
LowerChar(c) ==
    CASE c = "S" -> "s" [] c = "I" -> "i" [] c = "O" -> "o" [] c = "K" -> "k"
      [] c = "H" -> "h" [] c = "L" -> "l" [] c = "A" -> "a" [] c = "Í" -> "í"
      [] OTHER -> c

Unaccent(c) ==
    CASE c = "á" -> "a" [] c = "é" -> "e" [] c = "í" -> "i" [] c = "ó" -> "o"
      [] c = "ú" -> "u" [] OTHER -> c

\* _normalize: strip, lower, replace the accented vowels
normalize(text) ==
    LET t == Strip(text)
    IN  [i \in 1..Len(t) |-> Unaccent(LowerChar(t[i]))]

\* p in t
Contains(t, p) ==
    \E i \in 1..(Len(t) - Len(p) + 1) : SubSeq(t, i, i + Len(p) - 1) = p

\* t.startswith(g)
StartsWith(t, g) == Len(g) <= Len(t) /\ SubSeq(t, 1, Len(g)) = g

\* t.count(p): non-overlapping occurrences, scanning from the left
RECURSIVE Count(_, _)
Count(t, p) ==
    IF Len(t) < Len(p) THEN 0
    ELSE IF SubSeq(t, 1, Len(p)) = p
         THEN 1 + Count(SubSeq(t, Len(p) + 1, Len(t)), p)
         ELSE Count(Tail(t), p)

AnyIn(patterns, t) == \E i \in 1..Len(patterns) : Contains(t, patterns[i])

\* the word lists of get_open_next (lines 229-296)
greetings == <<
    <<"h", "o", "l", "a">>,
    <<"h", "o", "l", "i">>,
    <<"b", "u", "e", "n", "a", "s">>,
    <<"b", "u", "e", "n", " ", "d", "i", "a">>,
    <<"b", "u", "e", "n", "o", "s", " ", "d", "i", "a", "s">>,
    <<"b", "u", "e", "n", "a", "s", " ", "t", "a", "r", "d", "e", "s">>,
    <<"b", "u", "e", "n", "a", "s", " ", "n", "o", "c", "h", "e", "s">>,
    <<"h", "e", "y">>,
    <<"q", "u", "e", " ", "t", "a", "l">>,
    <<"s", "a", "l", "u", "d", "o", "s">> >>

\* the acceptances of the first _is_acceptance (line 237)
positives == <<
    <<"s", "i">>,
    <<"s", "í">>,
    <<"y", "e", "s">>,
    <<"o", "k">>,
    <<"o", "k", "a", "y">>,
    <<"d", "a", "l", "e">>,
    <<"c", "l", "a", "r", "o">>,
    <<"m", "o", "s", "t", "r", "a", "r">>,
    <<"m", "u", "é", "s", "t", "r", "a", "m", "e">>,
    <<"m", "u", "e", "s", "t", "r", "a", "m", "e">>,
    <<"v", "e", "r">>,
    <<"v", "e", "r", "l", "o", "s">>,
    <<"v", "e", "r", " ", "r", "e", "s", "u", "l", "t", "a", "d", "o", "s">>,
    <<"m", "o", "s", "t", "r", "a", "r", " ", "r", "e", "s", "u", "l", "t", "a", "d", "o", "s">>,
    <<"q", "u", "i", "e", "r", "o", " ", "v", "e", "r">>,
    <<"q", "u", "i", "e", "r", "o", " ", "m", "i", "s", " ", "r", "e", "s", "u", "l", "t", "a", "d", "o", "s">>,
    <<"r", "e", "s", "u", "l", "t", "a", "d", "o", "s">>,
    <<"m", "u", "e", "s", "t", "r", "a", "m", "e", " ", "e", "l", " ", "r", "e", "s", "u", "l", "t", "a", "d", "o">> >>

\* line 247
negatives == <<
    <<"n", "o">>,
    <<"n", "o", " ", "a", "u", "n">>,
    <<"t", "o", "d", "a", "v", "i", "a", " ", "n", "o">>,
    <<"p", "r", "e", "f", "i", "e", "r", "o", " ", "s", "e", "g", "u", "i", "r">>,
    <<"s", "e", "g", "u", "i", "r", " ", "c", "o", "n", "v", "e", "r", "s", "a", "n", "d", "o">> >>

\* anchors of _count_signals (line 284)
signal_anchors == <<
    <<"m", "e", " ", "g", "u", "s", "t", "a">>,
    <<"m", "e", " ", "e", "n", "c", "a", "n", "t", "a">>,
    <<"p", "r", "e", "f", "i", "e", "r", "o">>,
    <<"d", "i", "s", "f", "r", "u", "t", "o">>,
    <<"m", "e", " ", "i", "n", "t", "e", "r", "e", "s", "a">>,
    <<"m", "e", " ", "a", "t", "r", "a", "e">>,
    <<"s", "o", "y", " ", "b", "u", "e", "n", "o">>,
    <<"s", "e", " ", "m", "e", " ", "d", "a">>,
    <<"m", "e", " ", "v", "a", "c", "i", "l", "a">>,
    <<"m", "e", " ", "m", "o", "t", "i", "v", "a">>,
    <<"m", "e", " ", "a", "p", "a", "s", "i", "o", "n", "a">>,
    <<"m", "e", " ", "l", "l", "a", "m", "a">> >>

\* line 291
kw_list == <<
    <<"h", "a", "b", "i", "l", "i", "d", "a", "d">>,
    <<"f", "o", "r", "t", "a", "l", "e", "z", "a">>,
    <<"c", "r", "e", "a", "r">>,
    <<"d", "i", "s", "e", "ñ", "a", "r">>,
    <<"d", "i", "b", "u", "j", "a", "r">>,
    <<"p", "i", "n", "t", "a", "r">>,
    <<"p", "r", "o", "g", "r", "a", "m", "a", "r">>,
    <<"i", "n", "v", "e", "s", "t", "i", "g", "a", "r">>,
    <<"a", "n", "a", "l", "i", "z", "a", "r">>,
    <<"a", "n", "a", "l", "i", "z", "a", "r", " ", "d", "a", "t", "o", "s">>,
    <<"e", "n", "s", "e", "ñ", "a", "r">>,
    <<"c", "o", "m", "u", "n", "i", "c", "a", "r">>,
    <<"o", "r", "g", "a", "n", "i", "z", "a", "r">>,
    <<"l", "i", "d", "e", "r", "a", "r">>,
    <<"c", "o", "l", "a", "b", "o", "r", "a", "r">>,
    <<"a", "r", "t", "e">>,
    <<"m", "u", "s", "i", "c", "a">>,
    <<"d", "e", "p", "o", "r", "t", "e">>,
    <<"t", "e", "c", "n", "o", "l", "o", "g", "i", "a">>,
    <<"c", "i", "e", "n", "c", "i", "a">>,
    <<"m", "a", "t", "e", "m", "a", "t", "i", "c", "a", "s">>,
    <<"n", "u", "m", "e", "r", "o", "s">>,
    <<"n", "e", "g", "o", "c", "i", "o", "s">>,
    <<"m", "a", "r", "k", "e", "t", "i", "n", "g">>,
    <<"c", "u", "l", "t", "u", "r", "a">>,
    <<"e", "s", "c", "r", "i", "b", "i", "r">>,
    <<"a", "c", "e", "r", "t", "i", "j", "o", "s">>,
    <<"r", "o", "m", "p", "e", "c", "a", "b", "e", "z", "a", "s">>,
    <<"a", "y", "u", "d", "a", "r">> >>

\* the lists of the second _is_acceptance (lines 323-339)
short_yes == <<
    <<"s", "i">>,
    <<"s", "í">>,
    <<"y", "e", "s">>,
    <<"o", "k">>,
    <<"o", "k", "a", "y">>,
    <<"d", "a", "l", "e">>,
    <<"c", "l", "a", "r", "o">> >>

\* line 328
verbs == <<
    <<"v", "e", "r">>,
    <<"m", "o", "s", "t", "r", "a", "r">>,
    <<"m", "u", "e", "s", "t", "r", "a", "m", "e">>,
    <<"m", "u", "é", "s", "t", "r", "a", "m", "e">>,
    <<"d", "a", "m", "e">>,
    <<"d", "a", "r">>,
    <<"e", "n", "t", "r", "e", "g", "a", "r">>,
    <<"o", "b", "t", "e", "n", "e", "r">>,
    <<"t", "e", "n", "e", "r">>,
    <<"q", "u", "i", "e", "r", "o">>,
    <<"n", "e", "c", "e", "s", "i", "t", "o">>,
    <<"p", "o", "d", "r", "i", "a", "s">>,
    <<"p", "u", "e", "d", "e", "s">> >>

\* line 332
nouns == <<
    <<"r", "e", "s", "u", "l", "t", "a", "d", "o">>,
    <<"r", "e", "s", "u", "l", "t", "a", "d", "o", "s">> >>

\* line 337
extra == <<
    <<"v", "e", "r", "l", "o", "s">>,
    <<"v", "e", "r", " ", "r", "e", "s", "u", "l", "t", "a", "d", "o", "s">>,
    <<"m", "o", "s", "t", "r", "a", "r", " ", "r", "e", "s", "u", "l", "t", "a", "d", "o", "s">>,
    <<"q", "u", "i", "e", "r", "o", " ", "v", "e", "r">>,
    <<"q", "u", "i", "e", "r", "o", " ", "m", "i", "s", " ", "r", "e", "s", "u", "l", "t", "a", "d", "o", "s">>,
    <<"m", "i", " ", "r", "e", "s", "u", "l", "t", "a", "d", "o">>,
    <<"d", "a", "m", "e", " ", "m", "i", " ", "r", "e", "s", "u", "l", "t", "a", "d", "o">>,
    <<"d", "a", "r", "m", "e", " ", "e", "l", " ", "r", "e", "s", "u", "l", "t", "a", "d", "o">>,
    <<"d", "a", "r", "m", "e", " ", "m", "i", " ", "r", "e", "s", "u", "l", "t", "a", "d", "o">> >>

\* the numbers of get_open_next
GreetingLen == 5
MaxKeywordHits == 3
LongTextLen == 25
MaxSignalsPerMessage == 4
MinSignals == 3
UserMessageLimit == 6
WarnAtMessages == 5
EnoughSignals == 5

is_greeting(t) ==
    /\ t # <<>>
    /\ \/ \E i \in 1..Len(greetings) : t = greetings[i] \/ StartsWith(t, greetings[i])
       \/ Len(t) <= GreetingLen

\* the _is_acceptance in force while the signals are counted (line 236)
is_acceptance(t) == AnyIn(positives, t)

is_negative(t) == AnyIn(negatives, t)

Min(a, b) == IF a < b THEN a ELSE b

Max(a, b) == IF a > b THEN a ELSE b

\* the signals counted in a normalized, non-empty text
signals_in(t) ==
    LET count == SumSeq([i \in 1..Len(signal_anchors) |-> Count(t, signal_anchors[i])])
                 + Count(t, <<"n", "o", " ", "m", "e", " ", "g", "u", "s", "t", "a">>)
                 + Min(Cardinality({i \in 1..Len(kw_list) : Contains(t, kw_list[i])}),
                       MaxKeywordHits)
                 + (IF Len(t) >= LongTextLen THEN 1 ELSE 0)
    IN  IF count <= 0 THEN 0 ELSE Max(1, Min(count, MaxSignalsPerMessage))

\* _count_signals
count_signals_of(t) ==
    IF is_greeting(t) \/ is_acceptance(t) \/ is_negative(t) THEN 0 ELSE signals_in(t)

count_signals(text) == IF text = <<>> THEN 0 ELSE count_signals_of(normalize(text))

\* the _is_acceptance in force from line 317 on: the one the stages use
accepts(t) ==
    \/ AnyIn(short_yes, t)
    \/ AnyIn(verbs, t) /\ AnyIn(nouns, t)
    \/ AnyIn(extra, t)

is_acceptance_final(text) == accepts(normalize(text))

\* order_by(message_order.asc()): stable insertion sort
RECURSIVE InsertByMessageOrder(_, _)
InsertByMessageOrder(sorted, m) ==
    IF sorted = <<>> THEN <<m>>
    ELSE IF Head(sorted).message_order <= m.message_order
         THEN <<Head(sorted)>> \o InsertByMessageOrder(Tail(sorted), m)
         ELSE <<m>> \o sorted

RECURSIVE SortByMessageOrder(_)
SortByMessageOrder(ms) ==
    IF ms = <<>> THEN <<>>
    ELSE InsertByMessageOrder(SortByMessageOrder(SubSeq(ms, 1, Len(ms) - 1)), ms[Len(ms)])

\* the user messages of the session, by message_order
open_user_msgs(sid) ==
    SortByMessageOrder(Rows(messages, LAMBDA r : r.session_id = sid /\ r.message_type = "user"))

\* func.max(message_order) of the session, 0 when it has no message
max_order(sid) ==
    LET mine == Rows(messages, LAMBDA r : r.session_id = sid)
    IN  IF mine = <<>> THEN 0
        ELSE (CHOOSE m \in Range(mine) :
                 \A o \in Range(mine) : o.message_order <= m.message_order).message_order

\* what the bot says: a follow-up question written by generate_open_followup,
\* or one of the three requests for confirmation
FollowUpText == <<"f", "o", "l", "l", "o", "w", "-", "u", "p">>
ConfirmText == <<"c", "o", "n", "f", "i", "r", "m">>

\* the session row with a new conversation_stage
staged(sid, stage) ==
    [i \in 1..Len(sessions) |->
        IF sessions[i].session_id = sid
        THEN [sessions[i] EXCEPT !.conversation_stage = stage]
        ELSE sessions[i]]

\* the acceptance that closes the conversation: no message is added
move_to_results(sid) ==
    /\ sessions' = staged(sid, "results")
    /\ last' = Called("get_open_next", 200, sid, 0, 0)
    /\ UNCHANGED <<evaluations, answers, messages, results, feedbacks, comments,
                   questions, assignments, artifacts, loading, accounts, nextId, genLog>>

\* a bot message is added and the stage set
post_bot(sid, content, stage) ==
    /\ messages' = Append(messages,
           [message_id |-> nextId.messages, session_id |-> sid, message_type |-> "bot",
            content |-> content, message_order |-> max_order(sid) + 1,
            sent_at |-> nextId.messages])
    /\ sessions' = staged(sid, stage)
    /\ nextId' = Bump("messages")
    /\ last' = Called("get_open_next", 200, sid, 0, 0)
    /\ UNCHANGED <<evaluations, answers, results, feedbacks, comments,
                   questions, assignments, artifacts, loading, accounts, genLog>>

\* lines 345-495: the decision from the last user text, the signals
\* counted, the number of user messages and the stage of the session
open_step(sid, stage, last_user_text, signal_count, user_count) ==
    IF is_acceptance_final(last_user_text)
    THEN IF signal_count >= MinSignals
         THEN move_to_results(sid)
         ELSE post_bot(sid, FollowUpText, "collecting")
    ELSE IF stage = "confirm_results"
    THEN post_bot(sid, FollowUpText, "collecting")
    ELSE IF user_count >= UserMessageLimit /\ stage # "results"
    THEN post_bot(sid, ConfirmText, "confirm_results")
    ELSE IF user_count = WarnAtMessages /\ stage # "confirm_results"
    THEN post_bot(sid, ConfirmText, "confirm_results")
    ELSE IF signal_count >= EnoughSignals
    THEN post_bot(sid, ConfirmText, "confirm_results")
    ELSE post_bot(sid, FollowUpText, stage)

open_next_of(sid, stage, user_msgs) ==
    open_step(sid, stage,
              IF user_msgs = <<>> THEN <<>> ELSE Strip(user_msgs[Len(user_msgs)].content),
              SumSeq([i \in 1..Len(user_msgs) |-> count_signals(user_msgs[i].content)]),
              Len(user_msgs))

\* POST /chat/sessions/{session_id}/open/next
get_open_next(u, sid) ==
    LET session == Rows(sessions, LAMBDA r : /\ r.session_id = sid /\ r.user_id = u
                                             /\ r.chat_mode = "open")
    IN  IF session = <<>>
        THEN /\ last' = Called("get_open_next", 404, sid, 0, 0)
             /\ UNCHANGED <<tables, artifacts, loading, accounts, nextId, genLog>>
        ELSE open_next_of(sid, session[1].conversation_stage, open_user_msgs(sid))

\* --------------------------------------------------------- inputs
ChatModes == {"guided", "open"}

\* answer payloads: question, answer_text, selected_options
AnswerInputs == {[q |-> 1, text |-> <<"a", " ", " ", "b">>, opts |-> OptScale(JNum(500))]}

MessageInputs == {[type |-> "user", content |-> <<"a", " ", "b">>, order |-> 1]}

\* what loading the three artifact files gives
AllLoaded == <<"ok", "ok", "ok">>

\* sequences over S of length at most n
BSeq(S, n) == UNION {[1..k -> S] : k \in 0..n}

SessionRow(sid, u, mode) ==
    [session_id |-> sid, user_id |-> u, chat_mode |-> mode,
     conversation_stage |-> "welcome", status |-> "active", current_question_id |-> 0]

EvaluationRow(eid, u, sid, mode) ==
    [evaluation_id |-> eid, user_id |-> u, session_id |-> sid, evaluation_mode |-> mode,
     status |-> "in_progress"]

\* --------------------------------------------------------- specification
Init ==
    /\ sessions = <<>>
    /\ evaluations = <<>>
    /\ answers = <<>>
    /\ messages = <<>>
    /\ results = <<>>
    /\ feedbacks = <<>>
    /\ comments = <<>>
    /\ questions = QuestionCatalog
    /\ assignments = {}
    /\ rf_model = "None"
    /\ vectorizer = "None"
    /\ centroids = "None"
    /\ loaders = [t \in Workers |-> IdleLoader]
    /\ NoAccountActivity
    /\ writes = NoWrites
    /\ nextId = [sessions |-> 1, evaluations |-> 1, answers |-> 1, messages |-> 1,
                 results |-> 1, feedbacks |-> 1, comments |-> 1]
    /\ last = Called("init", 0, 0, 0, 0)
    /\ genLog = {}

Next ==
    \/ \E u \in Students, mode \in ChatModes : create_chat_session(u, mode)
    \/ /\ nextId.messages <= MaxMessages
       /\ \E u \in Students, sid \in 1..MaxSessions, m \in MessageInputs :
              create_chat_message(u, sid, m.type, m.content, m.order)
    \/ \E u \in Students, sid \in 1..MaxSessions, a \in AnswerInputs :
           submit_answer(u, sid, a.q, a.text, a.opts)
    \/ \E u \in Students, sid \in 1..MaxSessions : create_evaluation(u, sid, "guided")
    \/ \E u \in Students, sid \in 1..MaxSessions :
           complete_evaluation(u, sid, AllLoaded, GemNoModel)
    \/ \E u \in Students, eid \in 1..MaxEvals : submit_feedback(u, eid)
    \/ \E s \in Students, ev \in Evaluators : assign_student_to_evaluator(s, ev)
    \/ \E ev \in Evaluators, eid \in 1..MaxEvals : add_evaluation_comment(ev, eid)
    \/ \E u \in Students, sid \in 1..MaxSessions : delete_chat_session(u, sid)
    \/ \E u \in Students, sid \in 1..MaxSessions : delete_chat_session_rejected(u, sid)

Spec == Init /\ [][Next]_vars

\* --------------------------------------------------------- answers
\* The handlers that run while answers are stored: answering, the
\* compute-and-store run, the two question flows, reading the results back
\* and deleting the session.
ChatAnswerInputs == {
    [q |-> 1, text |-> <<>>, opts |-> OptScale(JNum(500))],
    [q |-> 1, text |-> <<"a">>, opts |-> NoOptions] }

NextAnswers ==
    \/ \E mode \in ChatModes : create_chat_session(1, mode)
    \/ \E a \in ChatAnswerInputs : submit_answer(1, 1, a.q, a.text, a.opts)
    \/ complete_evaluation(1, 1, AllLoaded, GemNoModel)
    \/ get_next_question(1, 1)
    \/ nextId.messages <= MaxMessages /\ get_open_next(1, 1)
    \/ get_session_results(1, 1)
    \/ get_my_evaluation_results(1, 1)
    \/ delete_chat_session(1, 1)

SpecAnswers == Init /\ [][NextAnswers]_vars

\* --------------------------------------------------------- loading
\* load_models_if_needed statement by statement, on the threads of the pool
\* that runs the synchronous handlers.
NextLoad ==
    \/ \E t \in Workers : load_models_begin(t)
    \/ \E t \in Workers : load_models_test(t)
    \/ \E t \in Workers, loaded \in ArtifactStates : load_models_store(t, loaded)

SpecLoad == Init /\ [][NextLoad]_vars

\* --------------------------------------------------------- reading results
\* Results are generated for a session's evaluation and read back through
\* the three endpoints.
NextReads ==
    \/ \E mode \in ChatModes : create_chat_session(1, mode)
    \/ /\ nextId.messages <= MaxMessages
       /\ \E m \in MessageInputs : create_chat_message(1, 1, m.type, m.content, m.order)
    \/ \E gem \in {GemNoModel, GemEmpty} : complete_evaluation(1, 1, AllLoaded, gem)
    \/ assign_student_to_evaluator(1, 3)
    \/ get_session_results(1, 1)
    \/ get_my_evaluation_results(1, 1)
    \/ get_evaluation_results(3, 1)

SpecReads == Init /\ [][NextReads]_vars

\* --------------------------------------------------------- degraded runs
\* The compute-and-store operation under every outcome of loading the
\* artifacts and of the generative call.
LoadInputs == {AllLoaded, <<"None", "ok", "ok">>, <<"ok", "None", "ok">>, <<"ok", "ok", "None">>,
               <<"bad", "ok", "ok">>, <<"ok", "ok", "bad">>}

GeminiInputs == {
    GemNoModel, GemRaise, GemEmpty, GemBadJson,
    GemJson(<<Item("Ciberseguridad", "Tecnología", "llm"),
              Item("Astrología", "Tecnología", "llm"),
              Item("Psicología", "Arte y Diseño", ""),
              Item("Economía", "Negocios y Economía", "llm"),
              Item("Sociología", "Ciencias Sociales", "llm"),
              Item("Ciencia de Datos", "Tecnología", "llm"),
              Item("Ciberseguridad", "Tecnología", "llm"),
              Item("Ingeniería de Software", "Tecnología", "llm")>>) }

\* a scale answer for R and one for I: the classifier sees R > I, R < I
\* or R = I
DegradeAnswerInputs == {
    [q |-> 1, text |-> <<>>, opts |-> OptScale(JNum(500))],
    [q |-> 2, text |-> <<>>, opts |-> OptScale(JNum(500))] }

\* one run: every outcome of the loading without a generative client, and
\* every outcome of the generative call with the files in place
DegradeRuns ==
    {<<load, GemNoModel>> : load \in LoadInputs} \cup {<<AllLoaded, gem>> : gem \in GeminiInputs}

\* the answers are given, then the runs are made
NextDegrade ==
    \/ \E mode \in ChatModes : create_chat_session(1, mode)
    \/ /\ results = <<>>
       /\ \E a \in DegradeAnswerInputs : submit_answer(1, 1, a.q, a.text, a.opts)
    \/ \E run \in DegradeRuns : complete_evaluation(1, 1, run[1], run[2])

SpecDegrade == Init /\ [][NextDegrade]_vars

\* --------------------------------------------------------- aggregation runs
\* The aggregator on stored answers of every shape.  The database holds the
\* assessed session 1 with evaluation 1 and another session 2 with
\* evaluation 2; the answers and the chat messages are drawn from the inputs.
AggAnswers == 2
AggMessages == 2

\* Each input carries, next to the stored fields (e, q, text, opts), what the
\* answer is expected to give: the dimension and value it adds ("" and 0:
\* nothing) and its text part (<<>>: none).
AggAnswerInputs == {
    [e |-> 1, q |-> 1, text |-> <<>>, opts |-> OptScale(JNum(400)),
     dim |-> "R", val |-> 400, part |-> <<>>],
    [e |-> 1, q |-> 1, text |-> <<>>, opts |-> OptValue(JStr(<<"2", ".", "5">>)),
     dim |-> "R", val |-> 250, part |-> <<>>],
    [e |-> 1, q |-> 2, text |-> <<>>, opts |-> OptSelected(JList(<<JNum(300), JNum(100)>>)),
     dim |-> "I", val |-> 300, part |-> <<>>],
    [e |-> 1, q |-> 2, text |-> <<"4">>, opts |-> NoOptions,
     dim |-> "I", val |-> 400, part |-> <<"4">>],
    [e |-> 1, q |-> 1, text |-> <<" ", "2", ",", "5">>, opts |-> OptSelected(JList(<<JStr(<<"x">>)>>)),
     dim |-> "R", val |-> 250, part |-> <<"2", ",", "5">>],
    [e |-> 1, q |-> 1, text |-> <<"4">>, opts |-> OptScale(JStr(<<"x">>)),
     dim |-> "", val |-> 0, part |-> <<"4">>],
    [e |-> 1, q |-> 3, text |-> <<"a", " ", " ", "b">>, opts |-> OptEmpty,
     dim |-> "", val |-> 0, part |-> <<"a", " ", "b">>],
    [e |-> 1, q |-> 4, text |-> <<" ">>, opts |-> OptScale(JNum(500)),
     dim |-> "", val |-> 0, part |-> <<>>],
    [e |-> 1, q |-> 6, text |-> <<>>, opts |-> OptScale(JNum(500)),
     dim |-> "", val |-> 0, part |-> <<>>],
    [e |-> 1, q |-> 5, text |-> <<"3">>, opts |-> OptSelected(JList(<<>>)),
     dim |-> "", val |-> 0, part |-> <<"3">>],
    [e |-> 1, q |-> 5, text |-> <<>>, opts |-> OptSelected(JList(<<JNum(200)>>)),
     dim |-> "A", val |-> 200, part |-> <<>>],
    [e |-> 2, q |-> 1, text |-> <<"d">>, opts |-> OptScale(JNum(500)),
     dim |-> "", val |-> 0, part |-> <<>>] }

\* part: the text a message is expected to give to evaluation 1 (<<>>: none)
AggMessageInputs == {
    [sid |-> 1, type |-> "user", content |-> <<"a", " ", "b">>, order |-> 2,
     part |-> <<"a", " ", "b">>],
    [sid |-> 1, type |-> "user", content |-> <<" ", "b", "\n", "a">>, order |-> 1,
     part |-> <<"b", " ", "a">>],
    [sid |-> 1, type |-> "bot", content |-> <<"e">>, order |-> 3, part |-> <<>>],
    [sid |-> 2, type |-> "user", content |-> <<"g">>, order |-> 1, part |-> <<>>] }

InitAgg ==
    /\ sessions = <<SessionRow(1, 1, "guided"), SessionRow(2, 1, "open")>>
    /\ evaluations = <<EvaluationRow(1, 1, 1, "guided"), EvaluationRow(2, 1, 2, "open")>>
    /\ \E as \in BSeq(AggAnswerInputs, AggAnswers) :
           answers = [i \in 1..Len(as) |->
                         [answer_id |-> i, evaluation_id |-> as[i].e, question_id |-> as[i].q,
                          answer_text |-> as[i].text, selected_options |-> as[i].opts]]
    /\ \E ms \in BSeq(AggMessageInputs, AggMessages) :
           messages = [i \in 1..Len(ms) |->
                          [message_id |-> i, session_id |-> ms[i].sid,
                           message_type |-> ms[i].type, content |-> ms[i].content,
                           message_order |-> ms[i].order, sent_at |-> i]]
    /\ results = <<>>
    /\ feedbacks = <<>>
    /\ comments = <<>>
    /\ questions = QuestionCatalog
    /\ assignments = {}
    /\ rf_model = "None"
    /\ vectorizer = "None"
    /\ centroids = "None"
    /\ loaders = [t \in Workers |-> IdleLoader]
    /\ NoAccountActivity
    /\ writes = NoWrites
    /\ nextId = [sessions |-> 3, evaluations |-> 3, answers |-> Len(answers) + 1,
                 messages |-> Len(messages) + 1, results |-> 1, feedbacks |-> 1,
                 comments |-> 1]
    /\ last = Called("init", 0, 0, 0, 0)
    /\ genLog = {}

\* one compute-and-store run on each stored combination
NextAgg == results = <<>> /\ complete_evaluation(1, 1, AllLoaded, GemNoModel)

SpecAgg == InitAgg /\ [][NextAgg]_vars

\* --------------------------------------------------------- scoring runs
\* The profile computation on scale answers inside and outside the 1-5
\* range, with and without free text, in both modes.
ScoreAnswers == 2

ScoreAnswerInputs == {
    [q |-> 1, text |-> <<>>, opts |-> OptScale(JNum(2500))],
    [q |-> 1, text |-> <<>>, opts |-> OptScale(JNum(4500))],
    [q |-> 1, text |-> <<>>, opts |-> OptScale(JNum(-100))],
    [q |-> 2, text |-> <<>>, opts |-> OptScale(JNum(500))],
    [q |-> 3, text |-> <<"a">>, opts |-> NoOptions] }

ScoreMessageInputs == {[type |-> "user", content |-> <<"b">>, order |-> 1]}

InitScore ==
    /\ \E mode \in ChatModes :
           /\ sessions = <<SessionRow(1, 1, mode)>>
           /\ evaluations = <<EvaluationRow(1, 1, 1, mode)>>
    /\ \E as \in BSeq(ScoreAnswerInputs, ScoreAnswers) :
           answers = [i \in 1..Len(as) |->
                         [answer_id |-> i, evaluation_id |-> 1, question_id |-> as[i].q,
                          answer_text |-> as[i].text, selected_options |-> as[i].opts]]
    /\ messages = <<>>
    /\ results = <<>>
    /\ feedbacks = <<>>
    /\ comments = <<>>
    /\ questions = QuestionCatalog
    /\ assignments = {}
    /\ rf_model = "None"
    /\ vectorizer = "None"
    /\ centroids = "None"
    /\ loaders = [t \in Workers |-> IdleLoader]
    /\ NoAccountActivity
    /\ writes = NoWrites
    /\ nextId = [sessions |-> 2, evaluations |-> 2, answers |-> Len(answers) + 1,
                 messages |-> 1, results |-> 1, feedbacks |-> 1, comments |-> 1]
    /\ last = Called("init", 0, 0, 0, 0)
    /\ genLog = {}

NextScore ==
    \/ complete_evaluation(1, 1, AllLoaded, GemNoModel)
    \/ \E a \in ScoreAnswerInputs : submit_answer(1, 1, a.q, a.text, a.opts)
    \/ /\ nextId.messages <= MaxMessages
       /\ \E m \in ScoreMessageInputs : create_chat_message(1, 1, m.type, m.content, m.order)

SpecScore == InitScore /\ [][NextScore]_vars

\* ------------------------------------------ the open conversation
\* An open session that already holds four user messages, then what the
\* student writes next and the calls to open/next, up to MaxOpenMessages
\* messages in the session.
MaxOpenMessages == 8

Hola == <<"h", "o", "l", "a">>
Si == <<"s", "i">>
MeGustaProgramar ==
    <<"M", "e", " ", "g", "u", "s", "t", "a", " ", "p", "r", "o", "g", "r", "a", "m", "a", "r",
      " ", "y", " ", "a", "n", "a", "l", "i", "z", "a", "r">>

OpenTexts == {Hola, Si, MeGustaProgramar}

OpenHistories == {
    <<Hola, Hola, Hola, Hola>>,
    <<Hola, Hola, Hola, MeGustaProgramar>>,
    <<Hola, Hola, MeGustaProgramar, MeGustaProgramar>> }

\* the message_order the client sends: the next free one, or 1 again
OpenOrders == {max_order(1) + 1, 1}

InitOpen ==
    /\ sessions = <<SessionRow(1, 1, "open")>>
    /\ evaluations = <<>>
    /\ answers = <<>>
    /\ \E h \in OpenHistories :
           messages = [i \in 1..Len(h) |->
                          [message_id |-> i, session_id |-> 1, message_type |-> "user",
                           content |-> h[i], message_order |-> i, sent_at |-> i]]
    /\ results = <<>>
    /\ feedbacks = <<>>
    /\ comments = <<>>
    /\ questions = QuestionCatalog
    /\ assignments = {}
    /\ rf_model = "None"
    /\ vectorizer = "None"
    /\ centroids = "None"
    /\ loaders = [t \in Workers |-> IdleLoader]
    /\ NoAccountActivity
    /\ writes = NoWrites
    /\ nextId = [sessions |-> 2, evaluations |-> 1, answers |-> 1,
                 messages |-> Len(messages) + 1, results |-> 1, feedbacks |-> 1,
                 comments |-> 1]
    /\ last = Called("init", 0, 0, 0, 0)
    /\ genLog = {}

NextOpen ==
    \/ /\ nextId.messages <= MaxOpenMessages
       /\ \E text \in OpenTexts, order \in OpenOrders :
              create_chat_message(1, 1, "user", text, order)
    \/ /\ nextId.messages <= MaxOpenMessages
       /\ get_open_next(1, 1)

SpecOpen == InitOpen /\ [][NextOpen]_vars


\* ------------------------------------------ password recovery
\* Reset requests for a registered and an unregistered address, confirms
\* with every token that can be stored and one that never is, and the
\* clock moving past the expiry of the tokens.
ResetEmails == {"Ana", "nobody"}
NewPasswords == {"n1", "n2"}

NextReset ==
    \/ \E email \in ResetEmails, debug \in BOOLEAN, sent \in BOOLEAN :
           request_password_reset(email, debug, sent)
    \/ \E token \in 1..(MaxResets + 1), new_password \in NewPasswords :
           confirm_password_reset(token, new_password)
    \/ Tick

SpecReset == Init /\ [][NextReset]_vars

\* ------------------------------------------ sign-in and deactivation
\* The student signs in, the administrator deactivates and reactivates
\* the student's account or changes its e-mail, a new student signs up,
\* and requests are made with the tokens handed out so far.
MaxTokens == 2

Logins == {[username |-> "Ana", password |-> "p1"], [username |-> "ana", password |-> "bad"],
           [username |-> "root", password |-> "p2"]}

UpdateInputs == {[email |-> "None", is_active |-> <<FALSE>>],
                 [email |-> "None", is_active |-> <<TRUE>>],
                 [email |-> "zed", is_active |-> <<>>]}

NextLockout ==
    \/ /\ Cardinality(issued) < MaxTokens
       /\ \E c \in Logins : login_for_access_token(c.username, c.password)
    \/ \E t \in issued : read_me(t)
    \/ \E t \in issued, patch \in UpdateInputs : update_user(t, 1, patch.email, patch.is_active)
    \/ create_student("Ana", "p4")
    \/ Tick

SpecLockout == Init /\ [][NextLockout]_vars

\* ------------------------------------------ the evaluator's access
\* A student's evaluation with its result, the assignment of the student
\* to the evaluator created and deleted, and the evaluator's requests on
\* an evaluation that exists and on one that does not.
NextAccess ==
    \/ create_chat_session(1, "guided")
    \/ complete_evaluation(1, 1, AllLoaded, GemNoModel)
    \/ assign_student_to_evaluator(1, 3)
    \/ delete_assignment(3, 1)
    \/ \E eid \in 1..(MaxEvals + 1) : get_evaluation_results(3, eid)
    \/ \E eid \in 1..(MaxEvals + 1) : add_evaluation_comment(3, eid)
    \/ \E eid \in 1..(MaxEvals + 1) : list_evaluation_comments(3, eid)

SpecAccess == Init /\ [][NextAccess]_vars

\* ------------------------------------------ two callers
\* The student's session and answers, and the generic routes of main.py
\* called by the student and by another authenticated user (user 3).
Callers == {1, 3}

NextCallers ==
    \/ \E mode \in ChatModes : create_chat_session(1, mode)
    \/ \E a \in ChatAnswerInputs : submit_answer(1, 1, a.q, a.text, a.opts)
    \/ \E u \in Callers : create_evaluation(u, 1, "guided")
    \/ \E u \in Callers, eid \in 1..MaxEvals, a \in ChatAnswerInputs :
           create_user_answer(u, eid, a.q, a.text, a.opts)
    \/ complete_evaluation(1, 1, AllLoaded, GemNoModel)

SpecCallers == Init /\ [][NextCallers]_vars

\* ===================================================================
\* Properties
\* ===================================================================

\* C1: after any sequence of compute-and-store runs for one evaluation, at
\* most one Result row is stored for that evaluation (a repeated run
\* overwrites the prior Result instead of adding another one).
C1_AtMostOneResult ==
    \A i, j \in 1..Len(results) :
        results[i].evaluation_id = results[j].evaluation_id => i = j

\* C2: every stored profile has each of its six dimension values in [0,1]
\* (0..10000 ten-thousandths), whatever the stored answers and the mode.
C2_ProfileInUnitRange ==
    \A i \in 1..Len(results) : \A d \in RiasecSet :
        /\ results[i].riasec_scores[d] >= 0
        /\ results[i].riasec_scores[d] <= 10000

\* the logged runs that went through the scoring (artifacts loaded)
ScoredRuns == {g \in genLog : ~g.degraded}

HasEvaluation(eid) == \E i \in 1..Len(evaluations) : evaluations[i].evaluation_id = eid

C4_DeleteLeavesNothing ==
    (last.op = "delete_chat_session" /\ last.status = 200) =>
        /\ \A i \in 1..Len(sessions) : sessions[i].session_id # last.session_id
        /\ \A i \in 1..Len(messages) : messages[i].session_id # last.session_id
        /\ \A i \in 1..Len(evaluations) : evaluations[i].session_id # last.session_id
        /\ \A i \in 1..Len(answers) : HasEvaluation(answers[i].evaluation_id)
        /\ \A i \in 1..Len(results) : HasEvaluation(results[i].evaluation_id)
        /\ \A i \in 1..Len(feedbacks) : HasEvaluation(feedbacks[i].evaluation_id)
        /\ \A i \in 1..Len(comments) : HasEvaluation(comments[i].evaluation_id)

\* C5: when an ML artifact could not be loaded, complete_evaluation answers
\* 200, the Result it stored has the all-zero six-key profile and an empty
\* career list, and the evaluation and the session are marked completed.
ArtifactMissing == rf_model = "None" \/ vectorizer = "None" \/ centroids = "None"

StoredResult(rid) == Rows(results, LAMBDA r : r.result_id = rid)

C5_DegradedResultStored ==
    (last.op = "complete_evaluation" /\ ArtifactMissing) =>
        /\ last.status = 200
        /\ Len(StoredResult(last.result_id)) = 1
        /\ LET r == StoredResult(last.result_id)[1]
           IN  /\ r.evaluation_id = last.evaluation_id
               /\ DOMAIN r.riasec_scores = RiasecSet
               /\ \A d \in RiasecSet : r.riasec_scores[d] = 0
               /\ r.top_careers = <<>>
        /\ \A i \in 1..Len(evaluations) :
               evaluations[i].evaluation_id = last.evaluation_id
                   => evaluations[i].status = "completed"
        /\ \A i \in 1..Len(sessions) :
               sessions[i].session_id = last.session_id
                   => sessions[i].status = "completed"

\* a completed run without the centroids on an evaluation that has a scale
\* answer
C5_Witness ==
    /\ last.op = "complete_evaluation"
    /\ centroids = "None" /\ rf_model = "ok" /\ vectorizer = "ok"
    /\ last.status = 200
    /\ \E i \in 1..Len(answers) : answers[i].evaluation_id = last.evaluation_id
    /\ \E i \in 1..Len(results) :
           /\ results[i].result_id = last.result_id
           /\ results[i].riasec_scores = ZeroProfile

\* C6: a failing prediction or enrichment step is never fatal: every
\* complete_evaluation call answers 200 and has stored a Result.
C6_FailureNeverFatal ==
    last.op = "complete_evaluation" =>
        /\ last.status = 200
        /\ Len(StoredResult(last.result_id)) = 1

\* C7 (as stated): in guided mode a dimension whose scale answers sum to s,
\* 0 <= s <= 30, is stored as s/30 (a sum of 25 as 0.8333).
C7_GuidedIsSumOverMax ==
    \A g \in ScoredRuns : \A d \in RiasecSet :
        (g.chat_mode = "guided" /\ g.mcq_scores[d] >= 0 /\ g.mcq_scores[d] <= 3000)
            => g.riasec_scores[d] = RoundDiv(g.mcq_scores[d] * 10, 3)

\* C7 (amended): in guided mode a dimension whose scale answers sum to s,
\* 0 <= s <= 30, and whose text similarity is n is stored as
\* round(0.7 * s/30 + 0.3 * n, 4); with s in hundredths and n in tenths that
\* is round(7 * s / 3) + 300 * n ten-thousandths.
C7_GuidedIsWeightedBlend ==
    \A g \in ScoredRuns : \A d \in RiasecSet :
        (g.chat_mode = "guided" /\ g.mcq_scores[d] >= 0 /\ g.mcq_scores[d] <= 3000)
            => g.riasec_scores[d] = RoundDiv(7 * g.mcq_scores[d], 3) + 300 * g.nlp_scores[d]

\* a guided run where R sums to 25 without free text (stored 0.5833), and
\* one where a dimension has both a scale sum and a text similarity
C7_Witness ==
    /\ \E g \in ScoredRuns :
           /\ g.chat_mode = "guided" /\ g.answers_text = <<>>
           /\ g.mcq_scores["R"] = 2500 /\ g.riasec_scores["R"] = 5833
    /\ \E g \in ScoredRuns :
           /\ g.chat_mode = "guided"
           /\ g.mcq_scores["I"] = 500 /\ g.nlp_scores["I"] = 5
           /\ g.riasec_scores["I"] = 2667

\* what a stored answer row is expected to give (its entry in AggAnswerInputs)
ExpectedOfAnswer(a) ==
    CHOOSE x \in AggAnswerInputs :
        /\ x.e = a.evaluation_id /\ x.q = a.question_id
        /\ x.text = a.answer_text /\ x.opts = a.selected_options

ExpectedOfMessage(m) ==
    CHOOSE x \in AggMessageInputs :
        /\ x.sid = m.session_id /\ x.type = m.message_type
        /\ x.content = m.content /\ x.order = m.message_order

ExpectedSum(d) ==
    SumSeq([i \in 1..Len(answers) |->
               IF ExpectedOfAnswer(answers[i]).dim = d
               THEN ExpectedOfAnswer(answers[i]).val ELSE 0])

\* C8: the aggregator returns for each dimension exactly the sum of the
\* numeric values of the evaluation's answers whose category maps to it (a
\* scalar field, the first element of a selection list, or a numeric string
\* in the text of a scale question); an answer with a missing or
\* unrecognized category or an unparsable value adds nothing and the other
\* answers are still summed.
C8_SumsPerDimension ==
    \A g \in ScoredRuns :
        g.evaluation_id = 1 => \A d \in RiasecSet : g.mcq_scores[d] = ExpectedSum(d)

\* an unparsable scale answer stored before a numeric text answer of another
\* dimension: the second one is still summed
C8_Witness ==
    \E g \in ScoredRuns :
        /\ Len(answers) = 2
        /\ answers[1].selected_options = OptScale(JStr(<<"x">>))
        /\ answers[2].question_id = 2 /\ answers[2].answer_text = <<"4">>
        /\ g.mcq_scores["I"] = 400 /\ g.mcq_scores["R"] = 0

\* the lines of a text
RECURSIVE SplitLines(_, _)
SplitLines(s, cur) ==
    IF s = <<>> THEN (IF cur = <<>> THEN <<>> ELSE <<cur>>)
    ELSE IF Head(s) = "\n" THEN <<cur>> \o SplitLines(Tail(s), <<>>)
    ELSE SplitLines(Tail(s), Append(cur, Head(s)))

\* the elements of a sequence at their first occurrence
FirstOccurrences(seq) ==
    LET keep == {i \in 1..Len(seq) : \A j \in 1..(i - 1) : seq[j] # seq[i]}
        at[n \in 0..Len(seq)] ==
            IF n = 0 THEN <<>>
            ELSE IF n \in keep THEN Append(at[n - 1], seq[n]) ELSE at[n - 1]
    IN  at[Len(seq)]

ExpectedParts ==
    LET fromAnswers == [i \in 1..Len(answers) |-> ExpectedOfAnswer(answers[i]).part]
        fromMessages == [i \in 1..Len(messages) |-> ExpectedOfMessage(messages[i]).part]
    IN  SelectSeq(fromAnswers \o fromMessages, LAMBDA t : t # <<>>)

\* C9: the aggregated text is the newline-join of non-empty,
\* whitespace-normalized, pairwise different parts in order of first
\* occurrence: the answer texts first, then the user messages of the
\* session in send order; bot messages and messages of other sessions give
\* no part.
C9_TextIsDedupedJoin ==
    \A g \in ScoredRuns :
        g.evaluation_id = 1 =>
            LET parts == SplitLines(g.answers_text, <<>>)
            IN  /\ parts = FirstOccurrences(ExpectedParts)
                /\ \A i \in 1..Len(parts) : parts[i] # <<>>
                /\ \A i, j \in 1..Len(parts) : parts[i] = parts[j] => i = j

\* an answer text "a  b", then the user messages "a b" (the same part once
\* normalized) and " b\na"
C9_Witness ==
    \E g \in ScoredRuns :
        /\ \E i \in 1..Len(answers) : answers[i].answer_text = <<"a", " ", " ", "b">>
        /\ Len(messages) = 2
        /\ messages[1].content = <<"a", " ", "b">>
        /\ messages[2].content = <<" ", "b", "\n", "a">>
        /\ SplitLines(g.answers_text, <<>>) = << <<"a", " ", "b">>, <<"b", " ", "a">> >>

\* --------------------------------------------------------- C11
\* C11: an answer is never changed once stored: in every step, each answer
\* of the table either is still there with every field as before, or is no
\* longer there, and then the step is a successful delete_chat_session of
\* the session its evaluation belongs to.
AnswerKept(a) ==
    /\ \E j \in 1..Len(answers') : answers'[j].answer_id = a.answer_id
    /\ \A j \in 1..Len(answers') : answers'[j].answer_id = a.answer_id => answers'[j] = a

AnswerDeletedWithSession(a) ==
    /\ \A j \in 1..Len(answers') : answers'[j].answer_id # a.answer_id
    /\ last'.op = "delete_chat_session"
    /\ last'.status = 200
    /\ \E i \in 1..Len(evaluations) :
           /\ evaluations[i].evaluation_id = a.evaluation_id
           /\ evaluations[i].session_id = last'.session_id

C11_AnswersImmutable ==
    [][\A i \in 1..Len(answers) :
           AnswerKept(answers[i]) \/ AnswerDeletedWithSession(answers[i])]_vars

\* an answer is stored, later answers were added, questions were served, a
\* result was generated and read back
C11_Witness ==
    /\ Len(answers) > 1
    /\ results # <<>>
    /\ \E i \in 1..Len(sessions) : sessions[i].current_question_id # 0
    /\ last.op = "get_session_results"
    /\ last.status = 200

\* --------------------------------------------------------- C12
\* two logged runs over the same stored answers of the same evaluation in
\* the same mode (the catalog is fixed)
SameInputs(g1, g2) ==
    /\ g1.evaluation_id = g2.evaluation_id
    /\ g1.stored_answers = g2.stored_answers
    /\ g1.chat_mode = g2.chat_mode

CareerNames(list) == [i \in 1..Len(list) |-> list[i].career]

CategoriesOf(list) == [i \in 1..Len(list) |-> list[i].category]

ClassIndex(cat) == CHOOSE i \in 1..Len(classes) : classes[i] = cat

RankIn(top3, cat) == CHOOSE i \in 1..Len(top3) : top3[i].category = cat

\* x is ranked before y: a higher probability, or the same and an earlier class
Before(px, ix, py, iy) == px > py \/ (px = py /\ ix < iy)

\* the ranking holds the three best classes, best first, ties in class order
RankedBest(g) ==
    /\ Len(g.top3) = 3
    /\ \A i \in 1..3 : g.top3[i].score = g.probabilities[ClassIndex(g.top3[i].category)]
    /\ \A i, j \in 1..3 :
           i < j => Before(g.top3[i].score, ClassIndex(g.top3[i].category),
                           g.top3[j].score, ClassIndex(g.top3[j].category))
    /\ \A c \in 1..Len(classes) :
           (\A i \in 1..3 : g.top3[i].category # classes[c])
               => Before(g.top3[3].score, ClassIndex(g.top3[3].category),
                         g.probabilities[c], c)

C14_LoadedOnce ==
    \A name \in {"rf_model", "vectorizer", "centroids"} : writes[name] <= 1

\* --------------------------------------------------------- C15
\* C15: no handler changes a stored field of a question: the questions
\* table is the same after every step.
C15_QuestionsStatic == [][questions' = questions]_vars

\* --------------------------------------------------------- C20
\* the guided-compatible questions of the table by increasing display_order,
\* written out by hand (question ids)
GuidedOrder == <<2, 1, 4, 5, 6>>

\* how many questions of GuidedOrder the session has been given
Served(current_question_id) ==
    IF current_question_id = 0 THEN 0
    ELSE CHOOSE k \in 1..Len(GuidedOrder) : GuidedOrder[k] = current_question_id

EntriesOf(list, cat) == {i \in 1..Len(list) : list[i].category = cat}

\* C16: in every stored list each career is a catalog entry of the category
\* it is listed with, that category is one of the ranked categories, no
\* category has more than three careers, the categories come in the order
\* of the ranking, and the list is empty when the catalog has nothing for
\* the ranked categories, whatever the generative service replied.
C16_CareersFromCatalog ==
    \A g \in genLog :
        LET list == g.top_careers
            ranked == [i \in 1..Len(g.top3) |-> g.top3[i].category]
        IN  /\ \A i \in 1..Len(list) :
                   /\ list[i].career \in Range(MAPA_CARRERAS(list[i].category))
                   /\ list[i].category \in Range(ranked)
                   /\ Cardinality(EntriesOf(list, list[i].category)) <= 3
            /\ \A i, j \in 1..Len(list) :
                   i < j => \E a, b \in 1..Len(ranked) :
                                /\ a <= b
                                /\ ranked[a] = list[i].category
                                /\ ranked[b] = list[j].category
            /\ (\A a \in 1..Len(ranked) : MAPA_CARRERAS(ranked[a]) = <<>>) => list = <<>>

\* the service proposed careers inside and outside the catalog and one of
\* its proposals was stored
C16_Witness ==
    \E g \in ScoredRuns :
        /\ g.generative = "json"
        /\ \E i \in 1..Len(g.top_careers) : g.top_careers[i].explanation = "llm"

\* a scored run whose ranked categories have no catalog entry stored the
\* empty list
C16_EmptyCatalogRun ==
    \E g \in ScoredRuns :
        /\ g.top3 # <<>>
        /\ \A a \in 1..Len(g.top3) : MAPA_CARRERAS(g.top3[a].category) = <<>>
        /\ g.top_careers = <<>>

\* --------------------------------------------------------- C17
\* C17: when get_session_results returns the Result of a session, the
\* source_mode it reports is 1.0 for an open-mode session and 0.0 for a
\* guided-mode session (in thousandths).
C17_SourceModeOfSession ==
    (last.op = "get_session_results" /\ last.status = 200)
        => \A i \in 1..Len(sessions) :
               sessions[i].session_id = last.session_id
                   => last.source_mode = IF sessions[i].chat_mode = "open" THEN 1000 ELSE 0

\* --------------------------------------------------------- C18
ResultReads == {"get_session_results", "get_my_evaluation_results", "get_evaluation_results"}

\* C18: whichever results-read endpoint answers, the Result it returns is
\* the most recently generated one of the evaluation.
C18_ReadsReturnLatest ==
    (last.op \in ResultReads /\ last.status = 200)
        => \A i \in 1..Len(results) :
               results[i].evaluation_id = last.evaluation_id
                   => results[i].generated_at
                          <= StoredResult(last.result_id)[1].generated_at

\* ---------------------------------------------------------------- C19
\* the last user message of the session, "" when it has none
LastUserText(sid) ==
    LET ms == open_user_msgs(sid)
    IN  IF ms = <<>> THEN <<>> ELSE ms[Len(ms)].content

\* C19: when an open session is in stage confirm_results and its last
\* user message is the acceptance "si", a call to open/next moves the
\* session to stage results and adds no message.
C19_AcceptanceAfterConfirm ==
    [][(/\ sessions # <<>>
        /\ sessions[1].chat_mode = "open"
        /\ sessions[1].conversation_stage = "confirm_results"
        /\ LastUserText(1) = Si
        /\ last'.op = "get_open_next"
        /\ last'.session_id = 1)
       => (/\ sessions'[1].conversation_stage = "results"
           /\ messages' = messages)]_vars

\* the session asked for confirmation and the student answered "si"
C19_AcceptedAtConfirm ==
    /\ sessions # <<>>
    /\ sessions[1].conversation_stage = "confirm_results"
    /\ LastUserText(1) = Si

\* an acceptance closed the conversation
C19_ClosedByAcceptance ==
    /\ sessions # <<>>
    /\ sessions[1].conversation_stage = "results"
    /\ last.op = "get_open_next"

\* ---------------------------------------------------------------- C21
\* the stored rows of a reset token
StoredReset(token) == Rows(password_resets, LAMBDA r : r.token = token)

PasswordChanged ==
    \E i \in 1..Len(users) : users'[i].password_hash # users[i].password_hash

\* a step of POST /password-reset/confirm
ConfirmStep == last'.op = "confirm_password_reset" /\ now' = now

\* C21: a password changes only in a successful confirm; a confirm
\* succeeds only with a token that is stored, not expired and has not
\* changed a password before; after any confirm the token is no longer
\* stored; a confirm with a token that is not stored is rejected as
\* invalid, one with an expired token is rejected, and a rejected confirm
\* leaves the users as they were.
C21_ResetTokenOnce ==
    [][/\ PasswordChanged => ConfirmStep /\ last'.status = 200
       /\ ConfirmStep =>
             /\ last'.status = 200 =>
                   /\ StoredReset(last'.token) # <<>>
                   /\ StoredReset(last'.token)[1].expires_at >= now
                   /\ last'.token \notin redeemed
             /\ Rows(password_resets', LAMBDA r : r.token = last'.token) = <<>>
             /\ StoredReset(last'.token) = <<>> =>
                   last'.status = 400 /\ reply'.detail = "Token inválido"
             /\ (StoredReset(last'.token) # <<>>
                   /\ StoredReset(last'.token)[1].expires_at < now) =>
                   last'.status = 400 /\ reply'.detail = "Token expirado"
             /\ last'.status # 200 => users' = users]_vars

\* a token that changed a password was presented again and rejected
C21_Witness ==
    /\ last.op = "confirm_password_reset"
    /\ last.status = 400
    /\ last.token \in redeemed
    /\ users[1].password_hash # Users0[1].password_hash

\* a confirm with an expired token was rejected
C21_ExpiredRejected ==
    /\ last.op = "confirm_password_reset"
    /\ reply.detail = "Token expirado"

\* ---------------------------------------------------------------- C22
\* what POST /password-reset/request answers for an address no user has
GenericReply == Detail("Si el correo existe, se ha enviado un enlace")

\* C22: every response of request_password_reset is the response given
\* for an unregistered address, so the responses for a registered and an
\* unregistered address are the same.
C22_ResetRequestReveals ==
    last.op = "request_password_reset" => reply = GenericReply

\* ---------------------------------------------------------------- C23
Inactive(uid) == UserById(uid) # <<>> /\ ~UserById(uid)[1].is_active

\* a step of GET /me
ReadStep == last'.op = "read_me" /\ now' = now

\* C23: no token is handed to a user who is inactive, and a request made
\* with a token of a user who is inactive is rejected with 401.
C23_InactiveLockedOut ==
    [][/\ \A t \in issued' \ issued : ~Inactive(t.user_id)
       /\ (ReadStep /\ Inactive(last'.token.user_id)) => last'.status = 401]_vars

\* the deactivated user asked for a token and was refused
C23_LoginRefused ==
    /\ Inactive(1)
    /\ last.op = "login_for_access_token"
    /\ last.status = 403

\* a request with a token of the deactivated user was rejected
C23_TokenRejected ==
    /\ Inactive(1)
    /\ last.op = "read_me"
    /\ last.status = 401
    /\ last.token.user_id = 1
    /\ now < last.token.token.exp

\* ---------------------------------------------------------------- C24
EvaluatorOps == {"get_evaluation_results", "add_evaluation_comment", "list_evaluation_comments"}

\* the evaluator is assigned the student of the evaluation
AssignedTo(ev, eid) == <<ev, EvaluationById(eid)[1].user_id>> \in assignments

C25_OneEvaluationPerSession ==
    \A i, j \in 1..Len(evaluations) :
        evaluations[i].session_id = evaluations[j].session_id => i = j

\* ---------------------------------------------------------------- C26
\* C26: every stored evaluation belongs to the user of the chat session it
\* references.
C26_EvaluationOfSessionUser ==
    \A i \in 1..Len(evaluations), j \in 1..Len(sessions) :
        evaluations[i].session_id = sessions[j].session_id =>
            evaluations[i].user_id = sessions[j].user_id

\* ---------------------------------------------------------------- C27
OrdersDistinct(ms) ==
    \A i, j \in 1..Len(ms) :
        (ms[i].session_id = ms[j].session_id /\ ms[i].message_order = ms[j].message_order)
            => i = j

\* C27: after every request the message_order values of a session are
\* pairwise distinct, and the bot message that get_open_next appends has
\* an order greater than that of every message of the session stored
\* before it.
C27_MessageOrders ==
    [][/\ OrdersDistinct(messages')
       /\ (last'.op = "get_open_next" /\ Len(messages') > Len(messages)) =>
             \A i \in 1..Len(messages) :
                 messages[i].session_id = messages'[Len(messages')].session_id =>
                     messages[i].message_order < messages'[Len(messages')].message_order]_vars

====
